---- MODULE Spec2Model ----
(***************************************************************************)
(* State-machine model of netbox-yandexcloud-sync: one orchestrated sync   *)
(* cycle (SyncEngine.run) against a NetBox target, with the batch VM path  *)
(* (load_netbox_data, process_vm_updates, apply_batch_updates) and the     *)
(* orphan reclaimer (cleanup_orphaned_infrastructure, orphan VM pass).     *)
(*                                                                         *)
(* The target is a plain record store: every create/save/delete is one     *)
(* round trip that either takes effect or raises.  Records held by the     *)
(* cache are client-side copies: an assignment changes the copy, save()    *)
(* writes the copy to the target.                                          *)
(***************************************************************************)
EXTENDS Integers, Sequences, FiniteSets, TLC

VARIABLES
    nb,      \* the target (NetBox): tag, sites, clusters, prefixes, vms, ifaces, ips, disks
    yc,      \* the source extraction returned by fetch_all_data (fixed over the runs)
    cfg,     \* dry_run (NetBoxClient), cleanup (argument of run), fail_budget
    cache,   \* NetBoxCache: snapshot copies and the mutation collections
    loc,     \* locals of the run: do_cleanup, id_mapping, cached tag id, created_* maps
    pc,      \* position of the run
    idx,     \* loop index of the current step
    stats,   \* statistics of sync_vms_optimized
    bstats,  \* statistics of apply_batch_updates
    log,     \* history: the target calls issued in the current run, in order
    hist,    \* history: facts about earlier runs of this behaviour
    run,     \* number of runs started
    fails    \* number of target calls that raised so far

vars == <<nb, yc, cfg, cache, loc, pc, idx, stats, bstats, log, hist, run, fails>>

----------------------------------------------------------------------------
(* Bounds of the model *)

MaxRuns == 2
MaxFailures == 1

----------------------------------------------------------------------------
(* Generic helpers: Python dicts keep insertion order; a dict is a sequence  *)
(* of [k, v] entries with distinct keys.                                   *)

Keys(d) == {d[i].k : i \in 1..Len(d)}

Get(d, key) == d[CHOOSE i \in 1..Len(d) : d[i].k = key].v

Put(d, key, val) ==
    IF key \in Keys(d)
    THEN [i \in 1..Len(d) |-> IF d[i].k = key THEN [k |-> key, v |-> val] ELSE d[i]]
    ELSE Append(d, [k |-> key, v |-> val])

RECURSIVE SetToSeq(_)
SetToSeq(S) ==
    IF S = {} THEN <<>>
    ELSE LET m == CHOOSE x \in S : \A y \in S : x <= y
         IN <<m>> \o SetToSeq(S \ {m})

Max(S) == CHOOSE x \in S : \A y \in S : y <= x

----------------------------------------------------------------------------
(* Addresses.  An address string is a sequence of tokens: the host literal, *)
(* optionally followed by "/" and a mask.                                  *)

PrivateLiterals == {"10.0.0.5", "10.0.0.9"}
PublicLiterals == {"51.250.1.1", "51.250.1.2"}

HasSlash(a) == \E i \in 1..Len(a) : a[i] = "/"

FirstSlash(a) == CHOOSE i \in 1..Len(a) : a[i] = "/" /\ \A j \in 1..(i - 1) : a[j] # "/"

get_ip_without_cidr(a) == IF HasSlash(a) THEN SubSeq(a, 1, FirstSlash(a) - 1) ELSE a

ensure_cidr_notation(a) == IF ~HasSlash(a) THEN a \o <<"/", "32">> ELSE a

is_private_ip(a) ==
    LET ip_str == get_ip_without_cidr(a)
    IN Len(ip_str) = 1 /\ ip_str[1] \in PrivateLiterals

P1 == <<"10.0.0.5">>
P2 == <<"10.0.0.9">>
Q1 == <<"51.250.1.1">>
Q2 == <<"51.250.1.2">>
NoAddr == <<>>

----------------------------------------------------------------------------
(* Scalar conversions of vms.py *)

GbThreshold == 1000
MbThreshold == 1000000

(* The bytes branch as a conversion to MiB, rounded half to even *)
BytesToMiBWide(a, b) ==
    IF b > 524288 THEN a + 1
    ELSE IF b < 524288 THEN a
    ELSE IF a % 2 = 0 THEN a ELSE a + 1

(* round(x / 2^30 * 1000) with Python's round-half-to-even, for the value  *)
(* x = a * 2^20 + b with 0 <= b < 2^20, computed without leaving 32-bit    *)
(* integers (vms.py 37 and 48).                                            *)
BytesToMbWide(a, b) ==
    LET N == a * 1000
        num == (N % 1024) * 1048576 + b * 1000
        whole == (N \div 1024) + (num \div 1073741824)
        rem == num % 1073741824
    IN IF rem > 536870912 THEN whole + 1
       ELSE IF rem < 536870912 THEN whole
       ELSE IF whole % 2 = 0 THEN whole ELSE whole + 1

BytesToMb(x) == BytesToMbWide(x \div 1048576, x % 1048576)

parse_memory_mb(memory) ==
    IF memory = 0 THEN 0
    ELSE IF memory < GbThreshold THEN memory * 1000
    ELSE IF memory < MbThreshold THEN memory
    ELSE BytesToMb(memory)

parse_cores(cores) == IF cores = 0 THEN 1 ELSE cores

nb_status_of(yc_status) == IF yc_status = "RUNNING" THEN "active" ELSE "offline"

----------------------------------------------------------------------------
(* Records.  Ids are positive; 0 stands for None.                          *)
(*   vm:    [name, tags, primary_ip4, memory, vcpus, status]               *)
(*   iface: [vm, name]                                                     *)
(*   ip:    [address, assigned_object_id, description]                     *)
(*   disk:  [vm, name, size]                                               *)

EthNames == <<"eth0", "eth1", "eth2", "eth3">>

EthName(i) == EthNames[i + 1]

(* A candidate / a value of primary_ip_changes: an address id, the string  *)
(* "pending", or None.                                                     *)
NoneVal == [kind |-> "none", id |-> 0]
PendingVal == [kind |-> "pending", id |-> 0]
IdVal(i) == [kind |-> "id", id |-> i]

(* The interface id used downstream: a real id, or the pending token       *)
(* f"pending_{vm_id}_{interface_name}".                                    *)
RealRef(i) == [pending |-> FALSE, id |-> i, vm |-> 0, name |-> ""]
PendingRef(v, n) == [pending |-> TRUE, id |-> 0, vm |-> v, name |-> n]

(* created_interfaces is keyed by f"{vm_id}_{iface_name}": the token       *)
(* without its "pending_" prefix.                                          *)
LookupKey(ref) == <<ref.vm, ref.name>>

EmptyFn == [x \in {} |-> 0]

EmptyQueues ==
    [vms_to_update |-> <<>>, ips_to_update |-> <<>>, primary_ip_changes |-> <<>>,
     interfaces_to_create |-> <<>>, ips_to_create |-> <<>>, disks_to_create |-> <<>>,
     disks_to_delete |-> <<>>, pending_primary_ips |-> <<>>,
     pending_ip_reassignments |-> <<>>]

EmptyCache ==
    [vms |-> EmptyFn, vms_by_name |-> EmptyFn, ifaces |-> EmptyFn, ips |-> EmptyFn,
     disks |-> EmptyFn, q |-> EmptyQueues]

(* The indexes load_netbox_data builds, read off the snapshot copies.  A   *)
(* listing returns records in id order; a later record overwrites an       *)
(* earlier one under the same key.                                         *)
interfaces_by_vm(c, vm_id) ==
    SetToSeq({i \in DOMAIN c.ifaces : c.ifaces[i].vm = vm_id})

ips_by_address(c, base) ==
    LET S == {i \in DOMAIN c.ips : get_ip_without_cidr(c.ips[i].address) = base}
    IN IF S = {} THEN 0 ELSE Max(S)

ips_by_interface(c, iface_id) ==
    SetToSeq({i \in DOMAIN c.ips : c.ips[i].assigned_object_id = iface_id})

disks_by_vm(c, vm_id) ==
    SetToSeq({d \in DOMAIN c.disks : c.disks[d].vm = vm_id})

vms_with_primary_ip(c, ip_id) ==
    {v \in DOMAIN c.vms : c.vms[v].primary_ip4 = ip_id}

----------------------------------------------------------------------------
(* Change planner: process_vm_updates.  The plan state ps carries the      *)
(* cache, changes_made and the two candidates.                             *)

NoUpdates == [memory |-> -1, vcpus |-> -1, status |-> ""]

HasUpdates(u) == u # NoUpdates

(* A planner that queues the memory of the source whatever the target      *)
(* holds: the variant under which every run has something to update.       *)
ScalarUpdatesAlways(vm, yc_vm) ==
    LET memory_mb == parse_memory_mb(yc_vm.memory)
        cpu_count == parse_cores(yc_vm.cores)
        nb_status == nb_status_of(yc_vm.status)
    IN [memory |-> IF memory_mb > 0 THEN memory_mb ELSE -1,
        vcpus  |-> IF cpu_count > 0 /\ vm.vcpus # cpu_count THEN cpu_count ELSE -1,
        status |-> IF vm.status # "" /\ vm.status # nb_status THEN nb_status ELSE ""]

(* Step 1 of process_vm_updates: the per-VM update map.  The source VMs of  *)
(* the model carry no folder_id, zone_id, os or metadata, and the target's  *)
(* cluster, site, platform and comments are in step with that, so lines     *)
(* 136-182 add nothing to the map; memory, vcpus and status are compared.   *)
ScalarUpdates(vm, yc_vm) ==
    LET memory_mb == parse_memory_mb(yc_vm.memory)
        cpu_count == parse_cores(yc_vm.cores)
        nb_status == nb_status_of(yc_vm.status)
    IN [memory |-> IF memory_mb > 0 /\ vm.memory # memory_mb THEN memory_mb ELSE -1,
        vcpus  |-> IF cpu_count > 0 /\ vm.vcpus # cpu_count THEN cpu_count ELSE -1,
        status |-> IF vm.status # "" /\ vm.status # nb_status THEN nb_status ELSE ""]

(* yc_disk_map: name -> size in MB, zero-sized disks dropped *)
RECURSIVE YcDiskMap(_, _)
YcDiskMap(yc_disks, n) ==
    IF n = 0 THEN <<>>
    ELSE LET m == YcDiskMap(yc_disks, n - 1)
             size_mb == BytesToMb(yc_disks[n].size)
         IN IF size_mb > 0 THEN Put(m, yc_disks[n].name, size_mb) ELSE m

(* A planner that does not report the disks it queues as a change *)
PlanDisksUnreported(ps, vm_id, yc_vm) ==
    LET c == ps.c
        existing_disks == disks_by_vm(c, vm_id)
        yc_disk_map == YcDiskMap(yc_vm.disks, Len(yc_vm.disks))
        existing_names == {c.disks[existing_disks[i]].name : i \in 1..Len(existing_disks)}
        to_create == SelectSeq(yc_disk_map, LAMBDA e : e.k \notin existing_names)
        creates == [i \in 1..Len(to_create) |->
                      [virtual_machine |-> vm_id, size |-> to_create[i].v,
                       name |-> to_create[i].k]]
        to_delete == SelectSeq(existing_disks,
                               LAMBDA d : c.disks[d].name \notin Keys(yc_disk_map))
    IN [ps EXCEPT !.c.q.disks_to_create = @ \o creates,
                  !.c.q.disks_to_delete = @ \o to_delete]

(* Step 2 of process_vm_updates: disks *)
PlanDisks(ps, vm_id, yc_vm) ==
    LET c == ps.c
        existing_disks == disks_by_vm(c, vm_id)
        yc_disk_map == YcDiskMap(yc_vm.disks, Len(yc_vm.disks))
        existing_names == {c.disks[existing_disks[i]].name : i \in 1..Len(existing_disks)}
        to_create == SelectSeq(yc_disk_map, LAMBDA e : e.k \notin existing_names)
        creates == [i \in 1..Len(to_create) |->
                      [virtual_machine |-> vm_id, size |-> to_create[i].v,
                       name |-> to_create[i].k]]
        to_delete == SelectSeq(existing_disks,
                               LAMBDA d : c.disks[d].name \notin Keys(yc_disk_map))
    IN [ps EXCEPT !.c.q.disks_to_create = @ \o creates,
                  !.c.q.disks_to_delete = @ \o to_delete,
                  !.changed = @ \/ Len(creates) > 0 \/ Len(to_delete) > 0]

(* A planner that leaves the other holders of an address alone: the        *)
(* variant under which a conflict is resolved without the clear.           *)
KeepOthers(changes, others) == changes

RECURSIVE ClearOthers(_, _)
ClearOthers(changes, others) ==
    IF others = <<>> THEN changes
    ELSE ClearOthers(Put(changes, Head(others), NoneVal), Tail(others))

(* A planner that queues every reassignment in ips_to_update, also when    *)
(* the interface is still to be created.                                   *)
PlanPrimaryV4Direct(ps, vm_id, ref, primary_v4) ==
    LET c == ps.c
        base_ip == get_ip_without_cidr(primary_v4)
        existing_ip == ips_by_address(c, base_ip)
    IN IF existing_ip # 0
       THEN LET mismatch == ref.pending \/ c.ips[existing_ip].assigned_object_id # ref.id
                others == SetToSeq(vms_with_primary_ip(c, existing_ip) \ {vm_id})
                q1 == IF ~mismatch THEN c.q
                      ELSE [c.q EXCEPT
                              !.primary_ip_changes = ClearOthers(@, others),
                              !.ips_to_update = Put(@, existing_ip, ref.id)]
            IN [c |-> [c EXCEPT !.q = q1],
                changed |-> ps.changed \/ mismatch,
                priv |-> IF is_private_ip(base_ip) /\ ps.priv.kind = "none"
                         THEN IdVal(existing_ip) ELSE ps.priv,
                pub  |-> IF ~is_private_ip(base_ip) /\ ps.pub.kind = "none"
                         THEN IdVal(existing_ip) ELSE ps.pub]
       ELSE LET addr == ensure_cidr_notation(primary_v4)
                private == is_private_ip(addr)
                ip_data == [address |-> addr, assigned_object_id |-> ref,
                            description |-> IF private THEN "Private IP" ELSE ""]
                set_priv == private /\ ps.priv.kind = "none"
                set_pub == ~private /\ ps.pub.kind = "none"
                pend == IF set_priv THEN Put(c.q.pending_primary_ips, vm_id, addr)
                        ELSE IF set_pub /\ vm_id \notin Keys(c.q.pending_primary_ips)
                        THEN Put(c.q.pending_primary_ips, vm_id, addr)
                        ELSE c.q.pending_primary_ips
            IN [c |-> [c EXCEPT !.q.ips_to_create = Append(@, ip_data),
                                !.q.pending_primary_ips = pend],
                changed |-> TRUE,
                priv |-> IF set_priv THEN PendingVal ELSE ps.priv,
                pub  |-> IF set_pub THEN PendingVal ELSE ps.pub]

(* Lines 244-295: the interface's primary IPv4 address *)
PlanPrimaryV4(ps, vm_id, ref, primary_v4) ==
    LET c == ps.c
        base_ip == get_ip_without_cidr(primary_v4)
        existing_ip == ips_by_address(c, base_ip)
    IN IF existing_ip # 0
       THEN LET mismatch == ref.pending \/ c.ips[existing_ip].assigned_object_id # ref.id
                others == SetToSeq(vms_with_primary_ip(c, existing_ip) \ {vm_id})
                q1 == IF ~mismatch THEN c.q
                      ELSE IF ref.pending
                      THEN [c.q EXCEPT
                              !.primary_ip_changes = ClearOthers(@, others),
                              !.pending_ip_reassignments = Put(@, existing_ip, ref)]
                      ELSE [c.q EXCEPT
                              !.primary_ip_changes = ClearOthers(@, others),
                              !.ips_to_update = Put(@, existing_ip, ref.id)]
            IN [c |-> [c EXCEPT !.q = q1],
                changed |-> ps.changed \/ mismatch,
                priv |-> IF is_private_ip(base_ip) /\ ps.priv.kind = "none"
                         THEN IdVal(existing_ip) ELSE ps.priv,
                pub  |-> IF ~is_private_ip(base_ip) /\ ps.pub.kind = "none"
                         THEN IdVal(existing_ip) ELSE ps.pub]
       ELSE LET addr == ensure_cidr_notation(primary_v4)
                private == is_private_ip(addr)
                ip_data == [address |-> addr, assigned_object_id |-> ref,
                            description |-> IF private THEN "Private IP" ELSE ""]
                set_priv == private /\ ps.priv.kind = "none"
                set_pub == ~private /\ ps.pub.kind = "none"
                pend == IF set_priv THEN Put(c.q.pending_primary_ips, vm_id, addr)
                        ELSE IF set_pub /\ vm_id \notin Keys(c.q.pending_primary_ips)
                        THEN Put(c.q.pending_primary_ips, vm_id, addr)
                        ELSE c.q.pending_primary_ips
            IN [c |-> [c EXCEPT !.q.ips_to_create = Append(@, ip_data),
                                !.q.pending_primary_ips = pend],
                changed |-> TRUE,
                priv |-> IF set_priv THEN PendingVal ELSE ps.priv,
                pub  |-> IF set_pub THEN PendingVal ELSE ps.pub]

(* A planner that ignores the one-to-one NAT address: the variant under    *)
(* which a new VM gets its private address only.                           *)
PlanPublicV4Skipped(ps, vm_id, ref, public_v4) == ps

(* Lines 296-318: the interface's one-to-one NAT address *)
PlanPublicV4(ps, vm_id, ref, public_v4) ==
    LET c == ps.c
        base_public_ip == get_ip_without_cidr(public_v4)
        existing_public_ip == ips_by_address(c, base_public_ip)
        take == ps.priv.kind = "none" /\ ps.pub.kind = "none"
    IN IF existing_public_ip = 0
       THEN LET addr == ensure_cidr_notation(public_v4)
                ip_data == [address |-> addr, assigned_object_id |-> ref,
                            description |-> "Public IP (NAT)"]
                pend == IF take /\ vm_id \notin Keys(c.q.pending_primary_ips)
                        THEN Put(c.q.pending_primary_ips, vm_id, addr)
                        ELSE c.q.pending_primary_ips
            IN [c |-> [c EXCEPT !.q.ips_to_create = Append(@, ip_data),
                                !.q.pending_primary_ips = pend],
                changed |-> TRUE,
                priv |-> ps.priv,
                pub  |-> IF take THEN PendingVal ELSE ps.pub]
       ELSE [ps EXCEPT !.pub = IF take THEN IdVal(existing_public_ip) ELSE @]

(* Lines 223-318: one source interface, idx0 is its 0-based position *)
PlanInterface(ps, vm_id, idx0, yc_iface) ==
    LET interface_name == EthName(idx0)
        existing_interfaces == interfaces_by_vm(ps.c, vm_id)
        named == {existing_interfaces[i] : i \in 1..Len(existing_interfaces)}
        same == {i \in named : ps.c.ifaces[i].name = interface_name}
        found == same # {}
        ref == IF found THEN RealRef(Max(same)) ELSE PendingRef(vm_id, interface_name)
        ps1 == IF found THEN ps
               ELSE [ps EXCEPT
                       !.c.q.interfaces_to_create =
                           Append(@, [virtual_machine |-> vm_id, name |-> interface_name]),
                       !.changed = TRUE]
        ps2 == IF yc_iface.p4 # NoAddr THEN PlanPrimaryV4(ps1, vm_id, ref, yc_iface.p4)
               ELSE ps1
    IN IF yc_iface.nat # NoAddr THEN PlanPublicV4(ps2, vm_id, ref, yc_iface.nat) ELSE ps2

RECURSIVE PlanInterfaces(_, _, _, _)
PlanInterfaces(ps, vm_id, yc_ifaces, n) ==
    IF n = 0 THEN ps
    ELSE PlanInterface(PlanInterfaces(ps, vm_id, yc_ifaces, n - 1), vm_id, n - 1, yc_ifaces[n])

(* Lines 384-395: the first private and the first other address on the     *)
(* VM's existing interfaces                                                *)
FallbackIp(c, vm_id) ==
    LET existing_interfaces == interfaces_by_vm(c, vm_id)
        all == [i \in 1..Len(existing_interfaces) |->
                  ips_by_interface(c, existing_interfaces[i])]
        Flat[i \in 0..Len(all)] == IF i = 0 THEN <<>> ELSE Flat[i - 1] \o all[i]
        ipseq == Flat[Len(all)]
        Scan[i \in 0..Len(ipseq)] ==
            IF i = 0 THEN [private |-> 0, public |-> 0]
            ELSE LET f == Scan[i - 1]
                     ip_str == get_ip_without_cidr(c.ips[ipseq[i]].address)
                 IN IF is_private_ip(ip_str) /\ f.private = 0
                    THEN [f EXCEPT !.private = ipseq[i]]
                    ELSE IF f.public = 0 THEN [f EXCEPT !.public = ipseq[i]]
                    ELSE f
        f == Scan[Len(ipseq)]
    IN IF f.private # 0 THEN f.private ELSE f.public

(* A selection without the stability check: the variant that queues the   *)
(* first private candidate, else the first public one, whenever it differs *)
(* from nothing.                                                           *)
PlanPrimaryReselect(ps, vm_id) ==
    LET top == IF ps.priv.kind = "id" THEN ps.priv
               ELSE IF ps.pub.kind = "id" THEN ps.pub
               ELSE NoneVal
    IN IF top.kind = "id"
       THEN [ps EXCEPT !.c.q.primary_ip_changes = Put(@, vm_id, top), !.changed = TRUE]
       ELSE ps

(* Lines 320-412: primary address selection *)
PlanPrimary(ps, vm_id) ==
    LET c == ps.c
        vm == c.vms[vm_id]
        primary_ip_to_set ==
            IF ps.priv.kind = "id" THEN ps.priv.id
            ELSE IF ps.pub.kind = "id" THEN ps.pub.id
            ELSE 0
        Queue(val) == [ps EXCEPT !.c.q.primary_ip_changes = Put(@, vm_id, val),
                                 !.changed = TRUE]
    IN IF vm.primary_ip4 = 0 /\ primary_ip_to_set # 0
       THEN Queue(IdVal(primary_ip_to_set))
       ELSE IF vm.primary_ip4 # 0 /\ primary_ip_to_set # 0
       THEN IF vm.primary_ip4 \notin DOMAIN c.ips THEN ps
            ELSE LET current_primary_ip == c.ips[vm.primary_ip4]
                     current_ip_str == get_ip_without_cidr(current_primary_ip.address)
                     existing_interfaces == interfaces_by_vm(c, vm_id)
                     current_assigned_to_vm ==
                         \E i \in 1..Len(existing_interfaces) :
                             current_primary_ip.assigned_object_id = existing_interfaces[i]
                 IN IF is_private_ip(current_ip_str)
                    THEN IF current_assigned_to_vm THEN ps
                         ELSE Queue(IdVal(primary_ip_to_set))
                    ELSE IF ps.priv.kind = "pending" THEN Queue(PendingVal)
                    ELSE IF ps.priv.kind = "id" THEN Queue(ps.priv)
                    ELSE IF ps.pub.kind # "none" /\ IdVal(vm.primary_ip4) # ps.pub
                    THEN Queue(ps.pub)
                    ELSE ps
       ELSE IF vm.primary_ip4 = 0
       THEN LET fallback_ip == FallbackIp(c, vm_id)
            IN IF fallback_ip # 0 THEN Queue(IdVal(fallback_ip))
               ELSE IF ps.priv.kind = "pending" THEN Queue(PendingVal)
               ELSE IF ps.pub.kind = "pending" THEN Queue(PendingVal)
               ELSE ps
       ELSE ps

(* A planner that writes the memory it queues into the snapshot record *)
process_vm_updates_eager(c, vm_id, yc_vm) ==
    LET updates == ScalarUpdates(c.vms[vm_id], yc_vm)
        c0 == [c EXCEPT !.vms[vm_id].memory =
                           IF updates.memory # -1 THEN updates.memory ELSE @]
        ps0 == [c |-> IF HasUpdates(updates)
                      THEN [c0 EXCEPT !.q.vms_to_update = Put(@, vm_id, updates)]
                      ELSE c0,
                changed |-> HasUpdates(updates),
                priv |-> NoneVal, pub |-> NoneVal]
        ps1 == PlanDisks(ps0, vm_id, yc_vm)
        ps2 == PlanInterfaces(ps1, vm_id, yc_vm.ifaces, Len(yc_vm.ifaces))
    IN PlanPrimary(ps2, vm_id)

process_vm_updates(c, vm_id, yc_vm) ==
    LET updates == ScalarUpdates(c.vms[vm_id], yc_vm)
        ps0 == [c |-> IF HasUpdates(updates)
                      THEN [c EXCEPT !.q.vms_to_update = Put(@, vm_id, updates)]
                      ELSE c,
                changed |-> HasUpdates(updates),
                priv |-> NoneVal, pub |-> NoneVal]
        ps1 == PlanDisks(ps0, vm_id, yc_vm)
        ps2 == PlanInterfaces(ps1, vm_id, yc_vm.ifaces, Len(yc_vm.ifaces))
    IN PlanPrimary(ps2, vm_id)

----------------------------------------------------------------------------
(* Identifiers of zones and folders are strings too: sequences of tokens.  *)
(* Lower-casing and replacement act token by token.                        *)

Lower(tok) ==
    CASE tok = "RU" -> "ru"
      [] tok = "B" -> "b"
      [] OTHER -> tok

Whitespace == {" ", "\n"}

RECURSIVE Strip(_)
Strip(str) ==
    IF str = <<>> THEN str
    ELSE IF Head(str) \in Whitespace THEN Strip(Tail(str))
    ELSE IF str[Len(str)] \in Whitespace THEN Strip(SubSeq(str, 1, Len(str) - 1))
    ELSE str

Contains(str, tok) == \E i \in 1..Len(str) : str[i] = tok

(* str.split(tok): the pieces between the occurrences of tok *)
RECURSIVE Split(_, _)
Split(str, tok) ==
    IF ~Contains(str, tok) THEN <<str>>
    ELSE LET i == CHOOSE j \in 1..Len(str) : str[j] = tok /\ \A k \in 1..(j - 1) : str[k] # tok
         IN <<SubSeq(str, 1, i - 1)>> \o Split(SubSeq(str, i + 1, Len(str)), tok)

ZoneMarker == "Availability Zone:"
FolderMarker == "Folder ID:"

(* ensure_site: slug = zone_id.lower().replace("_", "-") *)
site_slug(zone_id) ==
    [i \in 1..Len(zone_id) |-> IF zone_id[i] = "_" THEN "-" ELSE Lower(zone_id[i])]

(* ensure_site: description = f"Yandex Cloud Availability Zone: {zone_id}" *)
site_description(zone_id) == <<"Yandex Cloud ", ZoneMarker, " ">> \o zone_id

(* ensure_cluster: f"Folder ID: {folder_id}\n{description}".strip() *)
cluster_comments(folder_id, description) ==
    Strip(<<FolderMarker, " ">> \o folder_id \o <<"\n">> \o description)

(* ensure_cluster: the cluster is named cloud/folder, or folder alone *)
cluster_name(cloud_name, folder_name) ==
    IF cloud_name # <<>> THEN cloud_name \o <<"/">> \o folder_name ELSE folder_name

(* cleanup_orphaned_infrastructure lines 44-48: the zone id of a site *)
site_zone_id(site) ==
    IF site.slug # <<>> THEN site.slug
    ELSE IF site.description # <<>> /\ Contains(site.description, ZoneMarker)
    THEN LET parts == Split(site.description, ZoneMarker)
         IN Strip(parts[Len(parts)])
    ELSE <<>>

(* the folder id taken after the last marker instead of the first *)
cluster_folder_id_last(cluster) ==
    IF cluster.comments # <<>> /\ Contains(cluster.comments, FolderMarker)
    THEN LET parts == Split(cluster.comments, FolderMarker)
         IN Strip(Split(parts[Len(parts)], "\n")[1])
    ELSE <<>>

(* cleanup_orphaned_infrastructure lines 76-80: the folder id of a cluster *)
cluster_folder_id(cluster) ==
    IF cluster.comments # <<>> /\ Contains(cluster.comments, FolderMarker)
    THEN Strip(Split(Split(cluster.comments, FolderMarker)[2], "\n")[1])
    ELSE <<>>

DefaultZones ==
    << [id |-> <<"ru-central1", "-", "a">>, name |-> <<"ru-central1", "-", "a">>],
       [id |-> <<"ru-central1", "-", "b">>, name |-> <<"ru-central1", "-", "b">>],
       [id |-> <<"ru-central1", "-", "c">>, name |-> <<"ru-central1", "-", "c">>],
       [id |-> <<"ru-central1", "-", "d">>, name |-> <<"ru-central1", "-", "d">>] >>

----------------------------------------------------------------------------
(* The target and the run *)

MockTagId == 1

ZeroStats == [created |-> 0, updated |-> 0, skipped |-> 0, deleted |-> 0, errors |-> 0]

ZeroBatchStats ==
    [vms_updated |-> 0, ips_updated |-> 0, ips_reassigned |-> 0, primary_ips_changed |-> 0,
     interfaces_created |-> 0, ips_created |-> 0, disks_created |-> 0, disks_deleted |-> 0,
     errors |-> 0]

InitLoc ==
    [do_cleanup |-> FALSE, tag_id |-> 0, tag_cached |-> FALSE, cleanup_tag_id |-> 0,
     cluster_type_id |-> 0, zones |-> <<>>, folders |-> <<>>, work |-> <<>>,
     created_interfaces |-> <<>>, created_ips |-> <<>>, aborted |-> FALSE]

(* One entry of the history of target calls *)
Ev(op, id, arg, ok) == [op |-> op, id |-> id, arg |-> arg, ok |-> ok]

(* A target call may raise while the failure budget lasts *)
Outcomes == IF fails < cfg.fail_budget THEN {TRUE, FALSE} ELSE {TRUE}

Failed(ok) == IF ok THEN fails ELSE fails + 1

(* A call on a record the target no longer holds raises *)
OutcomesOn(exists) == IF exists THEN Outcomes ELSE {FALSE}

FailedOn(exists, ok) == IF exists /\ ~ok THEN fails + 1 ELSE fails

Inc(st, field) == [st EXCEPT ![field] = @ + 1]

(* ensure_sync_tag: the cached id, else the existing tag, else the mock id *)
(* under dry-run, else a created tag (0 and nothing cached if that fails). *)
SyncTagId == 2

ensure_sync_tag(n, l, dry_run, ok) ==
    IF l.tag_cached THEN [nb |-> n, loc |-> l, id |-> l.tag_id, called |-> FALSE]
    ELSE IF n.tag # 0
    THEN [nb |-> n, loc |-> [l EXCEPT !.tag_id = n.tag, !.tag_cached = TRUE],
          id |-> n.tag, called |-> FALSE]
    ELSE IF dry_run
    THEN [nb |-> n, loc |-> [l EXCEPT !.tag_id = MockTagId, !.tag_cached = TRUE],
          id |-> MockTagId, called |-> FALSE]
    ELSE IF ok
    THEN [nb |-> [n EXCEPT !.tag = SyncTagId],
          loc |-> [l EXCEPT !.tag_id = SyncTagId, !.tag_cached = TRUE],
          id |-> SyncTagId, called |-> TRUE]
    ELSE [nb |-> n, loc |-> l, id |-> 0, called |-> TRUE]

(* Deleting a VM removes its interfaces and disks with it; an address that *)
(* was assigned to one of its interfaces goes with the interface.          *)
Restrict(f, S) == [x \in S |-> f[x]]

DeleteVm(n, vm_id) ==
    LET gone == {i \in DOMAIN n.ifaces : n.ifaces[i].vm = vm_id}
    IN [n EXCEPT
          !.vms = Restrict(@, DOMAIN @ \ {vm_id}),
          !.ifaces = Restrict(@, DOMAIN @ \ gone),
          !.ips = Restrict(@, {i \in DOMAIN @ : @[i].assigned_object_id \notin gone}),
          !.disks = Restrict(@, {d \in DOMAIN @ : @[d].vm # vm_id})]

(* load_netbox_data: one listing of VMs, interfaces, addresses and disks   *)
VmsByName(vms) ==
    LET names == {vms[v].name : v \in DOMAIN vms}
    IN [nm \in names |-> Max({v \in DOMAIN vms : vms[v].name = nm})]

(* A loader whose disk listing is required like the others: the snapshot   *)
(* keeps the target's disks whatever the listing did.                      *)
load_netbox_data_strict(n, disks_ok) ==
    [vms |-> n.vms, vms_by_name |-> VmsByName(n.vms), ifaces |-> n.ifaces,
     ips |-> n.ips, disks |-> n.disks, q |-> EmptyQueues]

load_netbox_data(n, disks_ok) ==
    [vms |-> n.vms, vms_by_name |-> VmsByName(n.vms), ifaces |-> n.ifaces,
     ips |-> n.ips, disks |-> IF disks_ok THEN n.disks ELSE EmptyFn, q |-> EmptyQueues]

(* The keys of cache.vms_by_name in insertion order: a name enters at its  *)
(* first record in the listing.                                            *)
NamesInOrder(c) ==
    LET first == {Min2 \in DOMAIN c.vms :
                    \A v \in DOMAIN c.vms : c.vms[v].name = c.vms[Min2].name => Min2 <= v}
        ids == SetToSeq(first)
    IN [i \in 1..Len(ids) |-> c.vms[ids[i]].name]

yc_vm_names == {yc.vms[i].name : i \in 1..Len(yc.vms)} \ {""}

----------------------------------------------------------------------------
(* sync_vms_optimized *)

(* A sync that loads the snapshot and goes on whatever the source holds:   *)
(* the variant without the early return at lines 680-683.                  *)
LoadCacheAlways ==
    /\ pc = "vm_start"
    /\ \E ok \in Outcomes, disks_ok \in Outcomes :
         /\ (~ok => disks_ok)
         /\ fails' = IF ok /\ disks_ok THEN fails ELSE fails + 1
         /\ IF ~ok
            THEN /\ pc' = "done"
                 /\ loc' = [loc EXCEPT !.aborted = TRUE]
                 /\ UNCHANGED <<nb, cache>>
            ELSE LET t == IF loc.do_cleanup
                          THEN ensure_sync_tag(nb, loc, cfg.dry_run, TRUE)
                          ELSE [nb |-> nb, loc |-> loc, id |-> 0, called |-> FALSE]
                 IN /\ cache' = load_netbox_data(nb, disks_ok)
                    /\ nb' = t.nb
                    /\ loc' = t.loc
                    /\ pc' = IF loc.do_cleanup THEN "orphans" ELSE "plan"
    /\ idx' = 1
    /\ UNCHANGED <<yc, cfg, stats, bstats, log, hist, run>>

(* Lines 672-694: early return on an empty source list, else the snapshot  *)
(* load; a failing VM, interface or address listing propagates.            *)
LoadCache ==
    /\ pc = "vm_start"
    /\ IF yc.vms = <<>>
       THEN /\ pc' = "done"
            /\ UNCHANGED <<nb, cache, loc, fails>>
       ELSE \E ok \in Outcomes, disks_ok \in Outcomes :
              /\ (~ok => disks_ok)
              /\ fails' = IF ok /\ disks_ok THEN fails ELSE fails + 1
              /\ IF ~ok
                 THEN /\ pc' = "done"
                      /\ loc' = [loc EXCEPT !.aborted = TRUE]
                      /\ UNCHANGED <<nb, cache>>
                 ELSE LET t == IF loc.do_cleanup
                               THEN ensure_sync_tag(nb, loc, cfg.dry_run, TRUE)
                               ELSE [nb |-> nb, loc |-> loc, id |-> 0, called |-> FALSE]
                      IN /\ cache' = load_netbox_data(nb, disks_ok)
                         /\ nb' = t.nb
                         /\ loc' = t.loc
                         /\ pc' = IF loc.do_cleanup THEN "orphans" ELSE "plan"
    /\ idx' = 1
    /\ UNCHANGED <<yc, cfg, stats, bstats, log, hist, run>>

(* Line 702: the VM is deleted *)
vm_orphaned(vm, vm_name, tag_id) == tag_id \in vm.tags /\ vm_name \notin yc_vm_names

(* Lines 696-712: one VM of cache.vms_by_name in the orphan pass *)
OrphanVm ==
    /\ pc = "orphans"
    /\ idx <= Len(NamesInOrder(cache))
    /\ LET vm_name == NamesInOrder(cache)[idx]
           vm_id == cache.vms_by_name[vm_name]
           vm == cache.vms[vm_id]
       IN IF vm_orphaned(vm, vm_name, loc.tag_id)
          THEN IF ~cfg.dry_run
               THEN \E ok \in OutcomesOn(vm_id \in DOMAIN nb.vms) :
                      /\ nb' = IF ok THEN DeleteVm(nb, vm_id) ELSE nb
                      /\ stats' = Inc(stats, IF ok THEN "deleted" ELSE "errors")
                      /\ log' = Append(log, Ev("delete_vm", vm_id, 0, ok))
                      /\ fails' = FailedOn(vm_id \in DOMAIN nb.vms, ok)
               ELSE /\ stats' = Inc(stats, "deleted")
                    /\ UNCHANGED <<nb, log, fails>>
          ELSE UNCHANGED <<nb, stats, log, fails>>
    /\ idx' = idx + 1
    /\ UNCHANGED <<yc, cfg, cache, loc, pc, bstats, hist, run>>

(* prepare_vm_data: the record create_vm is given (name, vcpus, memory,    *)
(* status; create_vm adds the sync tag).  Its cluster, platform and        *)
(* comments play no part in the VM path and are left out.                  *)
prepare_vm_data(yc_vm) ==
    [name |-> yc_vm.name, tags |-> {}, primary_ip4 |-> 0,
     memory |-> parse_memory_mb(yc_vm.memory), vcpus |-> parse_cores(yc_vm.cores),
     status |-> nb_status_of(yc_vm.status)]

(* Lines 715-751: one source VM *)
PlanVm ==
    /\ pc = "plan"
    /\ idx <= Len(yc.vms)
    /\ LET yc_vm == yc.vms[idx]
           vm_name == yc_vm.name
       IN IF vm_name = ""
          THEN /\ stats' = Inc(stats, "skipped")
               /\ UNCHANGED <<nb, cache, loc, log, fails>>
          ELSE IF vm_name \in DOMAIN cache.vms_by_name
          THEN LET r == process_vm_updates(cache, cache.vms_by_name[vm_name], yc_vm)
               IN /\ cache' = r.c
                  /\ stats' = Inc(stats, IF r.changed THEN "updated" ELSE "skipped")
                  /\ UNCHANGED <<nb, loc, log, fails>>
          ELSE IF cfg.dry_run
          THEN /\ stats' = Inc(stats, "created")
               /\ UNCHANGED <<nb, cache, loc, log, fails>>
          ELSE \E ok \in Outcomes :
                 LET t == ensure_sync_tag(nb, loc, cfg.dry_run, TRUE)
                     data == prepare_vm_data(yc_vm)
                     vm_data == IF t.id # 0 THEN [data EXCEPT !.tags = {t.id}] ELSE data
                     new_id == t.nb.next
                     c1 == [cache EXCEPT
                              !.vms = @ @@ (new_id :> vm_data),
                              !.vms_by_name = @ @@ (vm_name :> new_id)]
                 IN /\ loc' = t.loc
                    /\ fails' = Failed(ok)
                    /\ log' = Append(log, Ev("create_vm", IF ok THEN new_id ELSE 0, 0, ok))
                    /\ IF ok
                       THEN /\ nb' = [t.nb EXCEPT !.vms = @ @@ (new_id :> vm_data),
                                                  !.next = @ + 1]
                            /\ cache' = process_vm_updates(c1, new_id, yc_vm).c
                            /\ stats' = Inc(stats, "created")
                       ELSE /\ nb' = t.nb
                            /\ cache' = cache
                            /\ stats' = Inc(stats, "errors")
    /\ idx' = idx + 1
    /\ UNCHANGED <<yc, cfg, pc, bstats, hist, run>>

----------------------------------------------------------------------------
(* apply_batch_updates *)

(* An apply phase that returns the intended counts under dry-run: the      *)
(* variant under which the statistics report what was not done.            *)
ApplyCounting ==
    /\ pc = "apply"
    /\ pc' = IF cfg.dry_run THEN "done" ELSE "s1"
    /\ idx' = 1
    /\ bstats' = IF cfg.dry_run
                 THEN [bstats EXCEPT !.vms_updated = Len(cache.q.vms_to_update),
                                     !.ips_created = Len(cache.q.ips_to_create),
                                     !.interfaces_created = Len(cache.q.interfaces_to_create),
                                     !.disks_created = Len(cache.q.disks_to_create),
                                     !.disks_deleted = Len(cache.q.disks_to_delete)]
                 ELSE bstats
    /\ UNCHANGED <<nb, yc, cfg, cache, loc, stats, log, hist, run, fails>>

(* An apply phase that does not look at dry_run: the variant under which   *)
(* a dry run writes.                                                       *)
ApplyAlways ==
    /\ pc = "apply"
    /\ pc' = "s1"
    /\ idx' = 1
    /\ UNCHANGED <<nb, yc, cfg, cache, loc, stats, bstats, log, hist, run, fails>>

(* Lines 432-451: under dry-run nothing is applied *)
ApplyStart ==
    /\ pc = "apply"
    /\ pc' = IF cfg.dry_run THEN "done" ELSE "s1"
    /\ idx' = 1
    /\ UNCHANGED <<nb, yc, cfg, cache, loc, stats, bstats, log, hist, run, fails>>

SaveVm(n, c, vm_id) == [n EXCEPT !.vms[vm_id] = c.vms[vm_id]]

SaveIp(n, ip_id, rec) == [n EXCEPT !.ips[ip_id] = rec]

(* Step 1, lines 453-466: one entry of primary_ip_changes *)
Step1UnsetPrimary ==
    /\ pc = "s1"
    /\ idx <= Len(cache.q.primary_ip_changes)
    /\ LET e == cache.q.primary_ip_changes[idx]
           vm_id == e.k
       IN IF e.v.kind = "none" /\ cache.vms[vm_id].primary_ip4 # 0
          THEN \E ok \in OutcomesOn(vm_id \in DOMAIN nb.vms) :
                 LET c1 == [cache EXCEPT !.vms[vm_id].primary_ip4 = 0]
                 IN /\ cache' = c1
                    /\ nb' = IF ok THEN SaveVm(nb, c1, vm_id) ELSE nb
                    /\ bstats' = Inc(bstats, IF ok THEN "primary_ips_changed" ELSE "errors")
                    /\ log' = Append(log, Ev("unset_primary", vm_id, 0, ok))
                    /\ fails' = FailedOn(vm_id \in DOMAIN nb.vms, ok)
          ELSE UNCHANGED <<nb, cache, bstats, log, fails>>
    /\ idx' = idx + 1
    /\ UNCHANGED <<yc, cfg, loc, pc, stats, hist, run>>

(* Step 2, lines 468-477: one queued disk deletion *)
Step2DeleteDisk ==
    /\ pc = "s2"
    /\ idx <= Len(cache.q.disks_to_delete)
    /\ LET d == cache.q.disks_to_delete[idx]
       IN \E ok \in OutcomesOn(d \in DOMAIN nb.disks) :
            /\ nb' = IF ok THEN [nb EXCEPT !.disks = Restrict(@, DOMAIN @ \ {d})] ELSE nb
            /\ bstats' = Inc(bstats, IF ok THEN "disks_deleted" ELSE "errors")
            /\ log' = Append(log, Ev("delete_disk", d, 0, ok))
            /\ fails' = FailedOn(d \in DOMAIN nb.disks, ok)
    /\ idx' = idx + 1
    /\ UNCHANGED <<yc, cfg, cache, loc, pc, stats, hist, run>>

(* Step 3, lines 479-493: one queued interface; create_interface returns   *)
(* None when the target call raises.                                       *)
Step3CreateInterface ==
    /\ pc = "s3"
    /\ idx <= Len(cache.q.interfaces_to_create)
    /\ LET iface_data == cache.q.interfaces_to_create[idx]
           vm_id == iface_data.virtual_machine
           new_id == nb.next
       IN \E ok \in OutcomesOn(vm_id \in DOMAIN nb.vms) :
            /\ fails' = FailedOn(vm_id \in DOMAIN nb.vms, ok)
            /\ log' = Append(log, Ev("create_interface", IF ok THEN new_id ELSE 0, vm_id, ok))
            /\ IF ok
               THEN /\ nb' = [nb EXCEPT
                                !.ifaces = @ @@ (new_id :> [vm |-> vm_id, name |-> iface_data.name]),
                                !.next = @ + 1]
                    /\ bstats' = Inc(bstats, "interfaces_created")
                    /\ loc' = [loc EXCEPT !.created_interfaces =
                                 Put(@, <<vm_id, iface_data.name>>, new_id)]
               ELSE UNCHANGED <<nb, bstats, loc>>
    /\ idx' = idx + 1
    /\ UNCHANGED <<yc, cfg, cache, pc, stats, hist, run>>

(* Step 3b with an unresolved token dropped without a count *)
RECURSIVE ResolveReassignmentsSilent(_, _, _)
ResolveReassignmentsSilent(r, pend, created) ==
    IF pend = <<>> THEN r
    ELSE LET e == Head(pend)
             r1 == IF LookupKey(e.v) \in Keys(created)
                   THEN [r EXCEPT !.ips_to_update = Put(@, e.k, Get(created, LookupKey(e.v)))]
                   ELSE r
         IN ResolveReassignmentsSilent(r1, Tail(pend), created)

(* Step 3b, lines 495-505: pending reassignments get their interface ids   *)
RECURSIVE ResolveReassignments(_, _, _)
ResolveReassignments(r, pend, created) ==
    IF pend = <<>> THEN r
    ELSE LET e == Head(pend)
             r1 == IF LookupKey(e.v) \in Keys(created)
                   THEN [r EXCEPT !.ips_to_update = Put(@, e.k, Get(created, LookupKey(e.v)))]
                   ELSE [r EXCEPT !.errors = @ + 1]
         IN ResolveReassignments(r1, Tail(pend), created)

Step3bResolveReassignments ==
    /\ pc = "s3b"
    /\ LET r == ResolveReassignments(
                   [ips_to_update |-> cache.q.ips_to_update, errors |-> 0],
                   cache.q.pending_ip_reassignments, loc.created_interfaces)
       IN /\ cache' = [cache EXCEPT !.q.ips_to_update = r.ips_to_update]
          /\ bstats' = [bstats EXCEPT !.errors = @ + r.errors]
    /\ pc' = "s4"
    /\ idx' = 1
    /\ UNCHANGED <<nb, yc, cfg, loc, stats, log, hist, run, fails>>

(* Step 4, lines 507-519: one entry of ips_to_update *)
Step4UpdateIp ==
    /\ pc = "s4"
    /\ idx <= Len(cache.q.ips_to_update)
    /\ LET e == cache.q.ips_to_update[idx]
           ip_id == e.k
           c1 == [cache EXCEPT !.ips[ip_id].assigned_object_id = e.v]
       IN \E ok \in OutcomesOn(ip_id \in DOMAIN nb.ips) :
            /\ cache' = c1
            /\ nb' = IF ok THEN SaveIp(nb, ip_id, c1.ips[ip_id]) ELSE nb
            /\ bstats' = Inc(bstats, IF ok THEN "ips_reassigned" ELSE "errors")
            /\ log' = Append(log, Ev("save_ip", ip_id, e.v, ok))
            /\ fails' = FailedOn(ip_id \in DOMAIN nb.ips, ok)
    /\ idx' = idx + 1
    /\ UNCHANGED <<yc, cfg, loc, pc, stats, hist, run>>

(* create_ip: an address whose base address the target already holds is    *)
(* re-assigned and returned instead of created; a raising call yields None *)
create_ip(n, addr, assigned, description, ok) ==
    LET base_ip == get_ip_without_cidr(addr)
        existing_ips == {i \in DOMAIN n.ips : get_ip_without_cidr(n.ips[i].address) = base_ip}
    IN IF existing_ips # {}
       THEN LET existing_ip == CHOOSE i \in existing_ips : \A j \in existing_ips : i <= j
                resave == n.ips[existing_ip].assigned_object_id # assigned /\ assigned # 0
            IN [nb |-> IF resave /\ ok
                       THEN [n EXCEPT !.ips[existing_ip].assigned_object_id = assigned]
                       ELSE n,
                id |-> existing_ip, called |-> resave, op |-> "save_ip"]
       ELSE IF ok
       THEN [nb |-> [n EXCEPT
                       !.ips = @ @@ (n.next :> [address |-> addr,
                                                assigned_object_id |-> assigned,
                                                description |-> description]),
                       !.next = @ + 1],
             id |-> n.next, called |-> TRUE, op |-> "create_ip"]
       ELSE [nb |-> n, id |-> 0, called |-> TRUE, op |-> "create_ip"]

(* Step 5, lines 521-545: one queued address *)
Step5CreateIp ==
    /\ pc = "s5"
    /\ idx <= Len(cache.q.ips_to_create)
    /\ LET ip_data == cache.q.ips_to_create[idx]
           ref == ip_data.assigned_object_id
           resolvable == ~ref.pending \/ LookupKey(ref) \in Keys(loc.created_interfaces)
           assigned == IF ref.pending THEN Get(loc.created_interfaces, LookupKey(ref))
                       ELSE ref.id
       IN IF ~resolvable
          THEN /\ bstats' = Inc(bstats, "errors")
               /\ UNCHANGED <<nb, loc, log, fails>>
          ELSE \E ok \in Outcomes :
                 LET r == create_ip(nb, ip_data.address, assigned, ip_data.description, ok)
                 IN /\ (~ok => r.called)
                    /\ nb' = r.nb
                    /\ fails' = Failed(ok)
                    /\ log' = IF r.called
                              THEN Append(log, Ev(r.op, r.id, assigned, ok))
                              ELSE log
                    /\ IF r.id # 0
                       THEN /\ bstats' = Inc(bstats, "ips_created")
                            /\ loc' = [loc EXCEPT !.created_ips =
                                         Put(@, get_ip_without_cidr(ip_data.address), r.id)]
                       ELSE UNCHANGED <<bstats, loc>>
    /\ idx' = idx + 1
    /\ UNCHANGED <<yc, cfg, cache, pc, stats, hist, run>>

(* Step 5b with an unresolved candidate left without a count *)
RECURSIVE ResolvePrimariesSilent(_, _, _)
ResolvePrimariesSilent(r, pend, created) ==
    IF pend = <<>> THEN r
    ELSE LET e == Head(pend)
             is_pending == e.k \in Keys(r.changes) /\ Get(r.changes, e.k) = PendingVal
             base_pending_ip == get_ip_without_cidr(e.v)
             r1 == IF is_pending /\ base_pending_ip \in Keys(created)
                   THEN [r EXCEPT !.changes = Put(@, e.k, IdVal(Get(created, base_pending_ip)))]
                   ELSE r
         IN ResolvePrimariesSilent(r1, Tail(pend), created)

(* Lines 547-576: pending primaries get the ids of the created addresses   *)
RECURSIVE ResolvePrimaries(_, _, _)
ResolvePrimaries(r, pend, created) ==
    IF pend = <<>> THEN r
    ELSE LET e == Head(pend)
             is_pending == e.k \in Keys(r.changes) /\ Get(r.changes, e.k) = PendingVal
             base_pending_ip == get_ip_without_cidr(e.v)
             r1 == IF ~is_pending THEN r
                   ELSE IF base_pending_ip \in Keys(created)
                   THEN [r EXCEPT !.changes = Put(@, e.k, IdVal(Get(created, base_pending_ip)))]
                   ELSE [r EXCEPT !.errors = @ + 1]
         IN ResolvePrimaries(r1, Tail(pend), created)

Step5bResolvePrimaries ==
    /\ pc = "s5b"
    /\ LET r == ResolvePrimaries([changes |-> cache.q.primary_ip_changes, errors |-> 0],
                                 cache.q.pending_primary_ips, loc.created_ips)
       IN /\ cache' = [cache EXCEPT !.q.primary_ip_changes = r.changes]
          /\ bstats' = [bstats EXCEPT !.errors = @ + r.errors]
    /\ pc' = "s6"
    /\ idx' = 1
    /\ UNCHANGED <<nb, yc, cfg, loc, stats, log, hist, run, fails>>

(* Step 6, lines 578-588: one queued disk; create_disk returns None when   *)
(* the target call raises.                                                 *)
Step6CreateDisk ==
    /\ pc = "s6"
    /\ idx <= Len(cache.q.disks_to_create)
    /\ LET disk_data == cache.q.disks_to_create[idx]
           new_id == nb.next
       IN \E ok \in Outcomes :
            /\ fails' = Failed(ok)
            /\ log' = Append(log, Ev("create_disk", IF ok THEN new_id ELSE 0,
                                     disk_data.virtual_machine, ok))
            /\ IF ok
               THEN /\ nb' = [nb EXCEPT
                                !.disks = @ @@ (new_id :> [vm |-> disk_data.virtual_machine,
                                                           name |-> disk_data.name,
                                                           size |-> disk_data.size]),
                                !.next = @ + 1]
                    /\ bstats' = Inc(bstats, "disks_created")
               ELSE UNCHANGED <<nb, bstats>>
    /\ idx' = idx + 1
    /\ UNCHANGED <<yc, cfg, cache, loc, pc, stats, hist, run>>

ApplyUpdates(vm, u) ==
    [vm EXCEPT !.memory = IF u.memory # -1 THEN u.memory ELSE @,
               !.vcpus = IF u.vcpus # -1 THEN u.vcpus ELSE @,
               !.status = IF u.status # "" THEN u.status ELSE @]

(* Step 7 with a failure that escapes the loop and ends the applicator *)
Step7UpdateVmAborting ==
    /\ pc = "s7"
    /\ idx <= Len(cache.q.vms_to_update)
    /\ LET e == cache.q.vms_to_update[idx]
           vm_id == e.k
           c1 == [cache EXCEPT !.vms[vm_id] = ApplyUpdates(@, e.v)]
       IN \E ok \in OutcomesOn(vm_id \in DOMAIN nb.vms) :
            /\ cache' = c1
            /\ nb' = IF ok THEN SaveVm(nb, c1, vm_id) ELSE nb
            /\ bstats' = Inc(bstats, IF ok THEN "vms_updated" ELSE "errors")
            /\ log' = Append(log, Ev("save_vm", vm_id, 0, ok))
            /\ fails' = FailedOn(vm_id \in DOMAIN nb.vms, ok)
            /\ pc' = IF ok THEN pc ELSE "done"
    /\ idx' = idx + 1
    /\ UNCHANGED <<yc, cfg, loc, stats, hist, run>>

(* Step 7 passing over a VM whose primary change is still pending *)
Step7UpdateVmUnlessPending ==
    /\ pc = "s7"
    /\ idx <= Len(cache.q.vms_to_update)
    /\ LET e == cache.q.vms_to_update[idx]
           vm_id == e.k
           c1 == [cache EXCEPT !.vms[vm_id] = ApplyUpdates(@, e.v)]
       IN IF vm_id \in Keys(cache.q.primary_ip_changes)
             /\ Get(cache.q.primary_ip_changes, vm_id) = PendingVal
          THEN UNCHANGED <<nb, cache, bstats, log, fails>>
          ELSE \E ok \in OutcomesOn(vm_id \in DOMAIN nb.vms) :
                 /\ cache' = c1
                 /\ nb' = IF ok THEN SaveVm(nb, c1, vm_id) ELSE nb
                 /\ bstats' = Inc(bstats, IF ok THEN "vms_updated" ELSE "errors")
                 /\ log' = Append(log, Ev("save_vm", vm_id, 0, ok))
                 /\ fails' = FailedOn(vm_id \in DOMAIN nb.vms, ok)
    /\ idx' = idx + 1
    /\ UNCHANGED <<yc, cfg, loc, pc, stats, hist, run>>

(* Step 7, lines 590-602: one entry of vms_to_update *)
Step7UpdateVm ==
    /\ pc = "s7"
    /\ idx <= Len(cache.q.vms_to_update)
    /\ LET e == cache.q.vms_to_update[idx]
           vm_id == e.k
           c1 == [cache EXCEPT !.vms[vm_id] = ApplyUpdates(@, e.v)]
       IN \E ok \in OutcomesOn(vm_id \in DOMAIN nb.vms) :
            /\ cache' = c1
            /\ nb' = IF ok THEN SaveVm(nb, c1, vm_id) ELSE nb
            /\ bstats' = Inc(bstats, IF ok THEN "vms_updated" ELSE "errors")
            /\ log' = Append(log, Ev("save_vm", vm_id, 0, ok))
            /\ fails' = FailedOn(vm_id \in DOMAIN nb.vms, ok)
    /\ idx' = idx + 1
    /\ UNCHANGED <<yc, cfg, loc, pc, stats, hist, run>>

(* Step 8, lines 604-658: one entry of primary_ip_changes.  The address is *)
(* the cached copy or fetched by id; the VM's interfaces are the cached    *)
(* list or, when that is empty, fetched.                                   *)
Step8SetPrimary ==
    /\ pc = "s8"
    /\ idx <= Len(cache.q.primary_ip_changes)
    /\ LET e == cache.q.primary_ip_changes[idx]
           vm_id == e.k
           ip_id == e.v.id
           cached == ip_id \in DOMAIN cache.ips
           found == cached \/ ip_id \in DOMAIN nb.ips
           ip == IF cached THEN cache.ips[ip_id] ELSE nb.ips[ip_id]
           cached_ifaces == interfaces_by_vm(cache, vm_id)
           vm_interfaces ==
               IF cached_ifaces # <<>> THEN cached_ifaces
               ELSE SetToSeq({i \in DOMAIN nb.ifaces : nb.ifaces[i].vm = vm_id})
           ip_assigned_to_vm ==
               /\ ip.assigned_object_id # 0
               /\ \E i \in 1..Len(vm_interfaces) : ip.assigned_object_id = vm_interfaces[i]
       IN IF e.v.kind = "pending"
          THEN /\ bstats' = Inc(bstats, "errors")
               /\ UNCHANGED <<nb, cache, log, fails>>
          ELSE IF e.v.kind = "none"
          THEN UNCHANGED <<nb, cache, bstats, log, fails>>
          ELSE IF ~found \/ vm_interfaces = <<>>
          THEN /\ bstats' = Inc(bstats, "errors")
               /\ UNCHANGED <<nb, cache, log, fails>>
          ELSE \E o \in {"ok", "ip_fail", "vm_fail"} :
                 LET ip_there == ip_id \in DOMAIN nb.ips
                     vm_there == vm_id \in DOMAIN nb.vms
                     budget == fails < cfg.fail_budget
                     ip_ok == o # "ip_fail"
                     vm_ok == o = "ok"
                     ip1 == [ip EXCEPT !.assigned_object_id = vm_interfaces[1]]
                     c1 == IF ~ip_assigned_to_vm /\ cached
                           THEN [cache EXCEPT !.ips[ip_id] = ip1] ELSE cache
                     n1 == IF ~ip_assigned_to_vm /\ ip_ok THEN SaveIp(nb, ip_id, ip1) ELSE nb
                     l1 == IF ~ip_assigned_to_vm
                           THEN Append(log, Ev("save_ip", ip_id, vm_interfaces[1], ip_ok))
                           ELSE log
                     b1 == IF ~ip_assigned_to_vm
                           THEN Inc(bstats, IF ip_ok THEN "ips_reassigned" ELSE "errors")
                           ELSE bstats
                     c2 == [c1 EXCEPT !.vms[vm_id].primary_ip4 = ip_id]
                 IN /\ o = "ip_fail" => ~ip_assigned_to_vm /\ (~ip_there \/ budget)
                    /\ o # "ip_fail" => ip_assigned_to_vm \/ ip_there
                    /\ o = "vm_fail" => ~vm_there \/ budget
                    /\ o = "ok" => vm_there
                    /\ IF o = "ip_fail"
                       THEN /\ cache' = c1
                            /\ nb' = n1
                            /\ log' = l1
                            /\ bstats' = b1
                            /\ fails' = IF ip_there THEN fails + 1 ELSE fails
                       ELSE /\ cache' = c2
                            /\ nb' = IF vm_ok THEN SaveVm(n1, c2, vm_id) ELSE n1
                            /\ log' = Append(l1, Ev("set_primary", vm_id, ip_id, vm_ok))
                            /\ bstats' = Inc(b1, IF vm_ok THEN "primary_ips_changed"
                                                 ELSE "errors")
                            /\ fails' = IF ~vm_ok /\ vm_there THEN fails + 1 ELSE fails
    /\ idx' = idx + 1
    /\ UNCHANGED <<yc, cfg, loc, pc, stats, hist, run>>

----------------------------------------------------------------------------
(* The run: SyncEngine.run *)

(* sync_infrastructure lines 55-63: the default zones when none were fetched *)
Zones == IF yc.zones = <<>> THEN DefaultZones ELSE yc.zones

(* Several target calls in one step: o[i] is the outcome of the i-th call, *)
(* made is the set of calls the step really issues.                        *)
Budgeted(o, made) ==
    /\ \A i \in DOMAIN o : i \notin made => o[i]
    /\ Cardinality({i \in made : ~o[i]}) <= cfg.fail_budget - fails

FailsAfter(o) == fails + Cardinality({i \in DOMAIN o : ~o[i]})

LoopLen ==
    CASE pc \in {"c_sites", "c_clusters", "c_prefixes"} -> Len(loc.work)
      [] pc = "e_sites" -> Len(Zones)
      [] pc = "e_clusters" -> Len(yc.folders)
      [] pc = "e_prefixes" -> Len(yc.subnets)
      [] pc = "orphans" -> Len(NamesInOrder(cache))
      [] pc = "plan" -> Len(yc.vms)
      [] pc = "s1" -> Len(cache.q.primary_ip_changes)
      [] pc = "s2" -> Len(cache.q.disks_to_delete)
      [] pc = "s3" -> Len(cache.q.interfaces_to_create)
      [] pc = "s4" -> Len(cache.q.ips_to_update)
      [] pc = "s5" -> Len(cache.q.ips_to_create)
      [] pc = "s6" -> Len(cache.q.disks_to_create)
      [] pc = "s7" -> Len(cache.q.vms_to_update)
      [] pc = "s8" -> Len(cache.q.primary_ip_changes)
      [] OTHER -> 0

LoopPhases == {"c_sites", "c_clusters", "c_prefixes", "e_sites", "e_clusters", "e_prefixes",
               "orphans", "plan", "s1", "s2", "s3", "s4", "s5", "s6", "s7", "s8"}

(* The steps with the primary-address sets ahead of the VM scalar updates *)
NextPhaseSetFirst ==
    CASE pc = "c_sites" -> "c_clusters_list"
      [] pc = "c_clusters" -> "c_prefixes_list"
      [] pc = "c_prefixes" -> "e_sites"
      [] pc = "e_sites" -> "e_ctype"
      [] pc = "e_clusters" -> "e_prefixes"
      [] pc = "e_prefixes" -> "vm_start"
      [] pc = "orphans" -> "plan"
      [] pc = "plan" -> "apply"
      [] pc = "s1" -> "s2"
      [] pc = "s2" -> "s3"
      [] pc = "s3" -> "s3b"
      [] pc = "s4" -> "s5"
      [] pc = "s5" -> "s5b"
      [] pc = "s6" -> "s8"
      [] pc = "s8" -> "s7"
      [] pc = "s7" -> "done"
      [] OTHER -> "done"

NextPhase ==
    CASE pc = "c_sites" -> "c_clusters_list"
      [] pc = "c_clusters" -> "c_prefixes_list"
      [] pc = "c_prefixes" -> "e_sites"
      [] pc = "e_sites" -> "e_ctype"
      [] pc = "e_clusters" -> "e_prefixes"
      [] pc = "e_prefixes" -> "vm_start"
      [] pc = "orphans" -> "plan"
      [] pc = "plan" -> "apply"
      [] pc = "s1" -> "s2"
      [] pc = "s2" -> "s3"
      [] pc = "s3" -> "s3b"
      [] pc = "s4" -> "s5"
      [] pc = "s5" -> "s5b"
      [] pc = "s6" -> "s7"
      [] pc = "s7" -> "s8"
      [] pc = "s8" -> "done"
      [] OTHER -> "done"

(* The loop of the current step is exhausted: the next step begins *)
Advance ==
    /\ pc \in LoopPhases
    /\ idx > LoopLen
    /\ pc' = NextPhase
    /\ idx' = 1
    /\ UNCHANGED <<nb, yc, cfg, cache, loc, stats, bstats, log, hist, run, fails>>

(* The run that is ending met no error: nothing raised, nothing counted    *)
RunClean ==
    /\ ~loc.aborted
    /\ stats.errors = 0
    /\ bstats.errors = 0
    /\ fails = hist.start_fails

(* engine.py lines 47-66: the cleanup gate and the early tag *)
StartRun ==
    /\ pc \in {"idle", "done"}
    /\ run < MaxRuns
    /\ run' = run + 1
    /\ \E ok \in Outcomes :
         LET l0 == [InitLoc EXCEPT !.do_cleanup = cfg.cleanup /\ ~yc.has_fetch_errors]
             t == ensure_sync_tag(nb, l0, cfg.dry_run, ok)
         IN /\ (~ok => t.called)
            /\ nb' = t.nb
            /\ loc' = t.loc
            /\ fails' = Failed(ok)
    /\ hist' = [prev_clean |-> pc = "done" /\ RunClean /\ ~cfg.dry_run /\ yc.vms # <<>>,
                start_nb |-> nb, start_fails |-> fails]
    /\ cache' = EmptyCache
    /\ stats' = ZeroStats
    /\ bstats' = ZeroBatchStats
    /\ log' = <<>>
    /\ pc' = "infra"
    /\ idx' = 1
    /\ UNCHANGED <<yc, cfg>>

----------------------------------------------------------------------------
(* sync_infrastructure and cleanup_orphaned_infrastructure *)

(* sync_infrastructure lines 34-41 *)
InfraStart ==
    /\ pc = "infra"
    /\ \E ok \in Outcomes :
         LET t == ensure_sync_tag(nb, loc, cfg.dry_run, ok)
         IN /\ (~ok => t.called)
            /\ nb' = t.nb
            /\ loc' = t.loc
            /\ fails' = Failed(ok)
    /\ pc' = IF loc.do_cleanup THEN "c_sites_list" ELSE "e_sites"
    /\ idx' = 1
    /\ UNCHANGED <<yc, cfg, cache, stats, bstats, log, hist, run>>

(* cleanup.py lines 34-38, 66, 109: the tag and the listings; a listing    *)
(* that raises ends the whole cleanup (line 135).                          *)
CleanupListing ==
    /\ pc \in {"c_sites_list", "c_clusters_list", "c_prefixes_list"}
    /\ \E o \in [1..2 -> BOOLEAN] :
         LET first == pc = "c_sites_list"
             t == IF first THEN ensure_sync_tag(nb, loc, cfg.dry_run, o[1])
                  ELSE [nb |-> nb, loc |-> loc, id |-> loc.cleanup_tag_id, called |-> FALSE]
             ids == CASE pc = "c_sites_list" -> DOMAIN nb.sites
                      [] pc = "c_clusters_list" -> DOMAIN nb.clusters
                      [] OTHER -> DOMAIN nb.prefixes
         IN /\ Budgeted(o, (IF t.called THEN {1} ELSE {}) \cup {2})
            /\ fails' = FailsAfter(o)
            /\ nb' = t.nb
            /\ loc' = [t.loc EXCEPT !.cleanup_tag_id = t.id,
                                    !.work = IF o[2] THEN SetToSeq(ids) ELSE <<>>]
            /\ pc' = IF ~o[2] THEN "e_sites"
                     ELSE CASE pc = "c_sites_list" -> "c_sites"
                            [] pc = "c_clusters_list" -> "c_clusters"
                            [] OTHER -> "c_prefixes"
    /\ idx' = 1
    /\ UNCHANGED <<yc, cfg, cache, stats, bstats, log, hist, run>>

yc_zones == {yc.zones[i].id : i \in 1..Len(yc.zones)}
yc_folders == {yc.folders[i].id : i \in 1..Len(yc.folders)}
yc_subnet_cidrs == {yc.subnets[i].cidr : i \in 1..Len(yc.subnets)} \ {<<>>}

(* A cleanup that deletes a site whatever its tags: the variant under      *)
(* which orphan safety is lost.                                            *)
site_orphaned_any_tag(site, tag_id) ==
    site_zone_id(site) # <<>> /\ site_zone_id(site) \notin yc_zones

(* Line 50: the site is deleted *)
site_orphaned(site, tag_id) ==
    tag_id \in site.tags /\ site_zone_id(site) # <<>> /\ site_zone_id(site) \notin yc_zones

(* Line 95: the cluster is deleted *)
cluster_orphaned(cluster, tag_id) ==
    /\ tag_id \in cluster.tags
    /\ cluster_folder_id(cluster) # <<>>
    /\ cluster_folder_id(cluster) \notin yc_folders

(* Line 117: the prefix is deleted *)
prefix_orphaned(prefix, tag_id) ==
    tag_id \in prefix.tags /\ prefix.prefix # <<>> /\ prefix.prefix \notin yc_subnet_cidrs

(* Lines 40-60: one listed site *)
CleanupSite ==
    /\ pc = "c_sites"
    /\ idx <= Len(loc.work)
    /\ LET site_id == loc.work[idx]
           site == nb.sites[site_id]
       IN IF site_orphaned(site, loc.cleanup_tag_id) /\ ~cfg.dry_run
          THEN \E ok \in Outcomes :
                 /\ nb' = IF ok
                          THEN [nb EXCEPT
                                  !.sites = Restrict(@, DOMAIN @ \ {site_id}),
                                  !.prefixes = [p \in DOMAIN @ |->
                                                  IF @[p].site = site_id
                                                  THEN [@[p] EXCEPT !.site = 0] ELSE @[p]]]
                          ELSE nb
                 /\ log' = Append(log, Ev("delete_site", site_id, 0, ok))
                 /\ fails' = Failed(ok)
          ELSE UNCHANGED <<nb, log, fails>>
    /\ idx' = idx + 1
    /\ UNCHANGED <<yc, cfg, cache, loc, pc, stats, bstats, hist, run>>

(* Lines 69-105: one listed cluster *)
CleanupCluster ==
    /\ pc = "c_clusters"
    /\ idx <= Len(loc.work)
    /\ LET cluster_id == loc.work[idx]
           cluster == nb.clusters[cluster_id]
       IN IF cluster_orphaned(cluster, loc.cleanup_tag_id) /\ ~cfg.dry_run
          THEN \E ok \in Outcomes :
                 /\ nb' = IF ok
                          THEN [nb EXCEPT !.clusters = Restrict(@, DOMAIN @ \ {cluster_id})]
                          ELSE nb
                 /\ log' = Append(log, Ev("delete_cluster", cluster_id, 0, ok))
                 /\ fails' = Failed(ok)
          ELSE UNCHANGED <<nb, log, fails>>
    /\ idx' = idx + 1
    /\ UNCHANGED <<yc, cfg, cache, loc, pc, stats, bstats, hist, run>>

(* Lines 111-127: one listed prefix, matched by its CIDR *)
CleanupPrefix ==
    /\ pc = "c_prefixes"
    /\ idx <= Len(loc.work)
    /\ LET prefix_id == loc.work[idx]
           prefix == nb.prefixes[prefix_id]
       IN IF prefix_orphaned(prefix, loc.cleanup_tag_id) /\ ~cfg.dry_run
          THEN \E ok \in Outcomes :
                 /\ nb' = IF ok
                          THEN [nb EXCEPT !.prefixes = Restrict(@, DOMAIN @ \ {prefix_id})]
                          ELSE nb
                 /\ log' = Append(log, Ev("delete_prefix", prefix_id, 0, ok))
                 /\ fails' = Failed(ok)
          ELSE UNCHANGED <<nb, log, fails>>
    /\ idx' = idx + 1
    /\ UNCHANGED <<yc, cfg, cache, loc, pc, stats, bstats, hist, run>>

MockId == 1

Min(S) == CHOOSE x \in S : \A y \in S : x <= y

(* sync_infrastructure lines 66-78 with ensure_site: one zone.  Calls:     *)
(* 1 the update save or the create, 2 the tag creation, 3 the tag save.     *)
EnsureSite ==
    /\ pc = "e_sites"
    /\ idx <= Len(Zones)
    /\ LET zone == Zones[idx]
           zone_id == zone.id
           name == IF zone.name # <<>> THEN zone.name ELSE zone_id
           slug == site_slug(zone_id)
           description == site_description(zone_id)
           by_name == {x \in DOMAIN nb.sites : nb.sites[x].name = name}
           by_slug == {x \in DOMAIN nb.sites : nb.sites[x].slug = slug}
           site_id == IF by_name # {} THEN Min(by_name) ELSE Min(by_slug)
       IN IF zone_id = <<>>
          THEN UNCHANGED <<nb, loc, log, fails>>
          ELSE IF by_name \cup by_slug # {}
          THEN \E o \in [1..3 -> BOOLEAN] :
                 LET site == nb.sites[site_id]
                     wanted == [site EXCEPT !.name = name, !.slug = slug,
                                            !.description = description]
                     call1 == wanted # site /\ ~cfg.dry_run
                     local1 == IF call1 THEN wanted ELSE site
                     n1 == IF call1 /\ o[1] THEN [nb EXCEPT !.sites[site_id] = local1] ELSE nb
                     t == ensure_sync_tag(n1, loc, cfg.dry_run, o[2])
                     call3 == t.id # 0 /\ ~cfg.dry_run /\ t.id \notin local1.tags
                     local2 == [local1 EXCEPT !.tags = @ \cup {t.id}]
                     l1 == IF call1 THEN Append(log, Ev("save_site", site_id, 0, o[1]))
                           ELSE log
                 IN /\ Budgeted(o, (IF call1 THEN {1} ELSE {}) \cup
                                   (IF t.called THEN {2} ELSE {}) \cup
                                   (IF call3 THEN {3} ELSE {}))
                    /\ fails' = FailsAfter(o)
                    /\ nb' = IF call3 /\ o[3] THEN [t.nb EXCEPT !.sites[site_id] = local2]
                             ELSE t.nb
                    /\ log' = IF call3 THEN Append(l1, Ev("save_site", site_id, t.id, o[3]))
                              ELSE l1
                    /\ loc' = [t.loc EXCEPT !.zones = Put(@, zone_id, site_id)]
          ELSE IF cfg.dry_run
          THEN /\ loc' = [loc EXCEPT !.zones = Put(@, zone_id, MockId)]
               /\ UNCHANGED <<nb, log, fails>>
          ELSE \E o \in [1..3 -> BOOLEAN] :
                 LET t == ensure_sync_tag(nb, loc, cfg.dry_run, o[2])
                     new_id == t.nb.next
                     site == [name |-> name, slug |-> slug, description |-> description,
                              tags |-> IF t.id # 0 THEN {t.id} ELSE {}]
                 IN /\ Budgeted(o, {1} \cup (IF t.called THEN {2} ELSE {}))
                    /\ fails' = FailsAfter(o)
                    /\ nb' = IF o[1]
                             THEN [t.nb EXCEPT !.sites = @ @@ (new_id :> site), !.next = @ + 1]
                             ELSE t.nb
                    /\ log' = Append(log, Ev("create_site", IF o[1] THEN new_id ELSE 0, 0, o[1]))
                    /\ loc' = IF o[1] THEN [t.loc EXCEPT !.zones = Put(@, zone_id, new_id)]
                              ELSE t.loc
    /\ idx' = idx + 1
    /\ UNCHANGED <<yc, cfg, cache, pc, stats, bstats, hist, run>>

(* sync_infrastructure line 81 with ensure_cluster_type; a create that     *)
(* raises is not caught and ends the run.  Calls: 1 the create or the tag  *)
(* save, 2 the tag creation.                                               *)
EnsureClusterType ==
    /\ pc = "e_ctype"
    /\ IF nb.cluster_type.id # 0
       THEN \E o \in [1..2 -> BOOLEAN] :
              LET t == ensure_sync_tag(nb, loc, cfg.dry_run, o[2])
                  call1 == t.id # 0 /\ ~cfg.dry_run /\ t.id \notin nb.cluster_type.tags
              IN /\ Budgeted(o, (IF call1 THEN {1} ELSE {}) \cup (IF t.called THEN {2} ELSE {}))
                 /\ fails' = FailsAfter(o)
                 /\ nb' = IF call1 /\ o[1]
                          THEN [t.nb EXCEPT !.cluster_type.tags = @ \cup {t.id}]
                          ELSE t.nb
                 /\ loc' = [t.loc EXCEPT !.cluster_type_id = nb.cluster_type.id]
                 /\ pc' = "e_clusters"
       ELSE IF cfg.dry_run
       THEN /\ loc' = [loc EXCEPT !.cluster_type_id = MockId]
            /\ pc' = "e_clusters"
            /\ UNCHANGED <<nb, fails>>
       ELSE \E o \in [1..2 -> BOOLEAN] :
              LET t == ensure_sync_tag(nb, loc, cfg.dry_run, o[2])
                  new_id == t.nb.next
              IN /\ Budgeted(o, {1} \cup (IF t.called THEN {2} ELSE {}))
                 /\ fails' = FailsAfter(o)
                 /\ nb' = IF o[1]
                          THEN [t.nb EXCEPT
                                  !.cluster_type = [id |-> new_id,
                                                    tags |-> IF t.id # 0 THEN {t.id} ELSE {}],
                                  !.next = @ + 1]
                          ELSE t.nb
                 /\ loc' = IF o[1] THEN [t.loc EXCEPT !.cluster_type_id = new_id]
                           ELSE [t.loc EXCEPT !.aborted = TRUE]
                 /\ pc' = IF o[1] THEN "e_clusters" ELSE "done"
    /\ idx' = 1
    /\ UNCHANGED <<yc, cfg, cache, stats, bstats, log, hist, run>>

(* sync_infrastructure lines 85-103 with ensure_cluster: one folder.       *)
(* Calls: 1 the update save or the create, 2 the tag creation, 3 the tag   *)
(* save.  The cluster type is the one cached at line 81.                   *)
EnsureCluster ==
    /\ pc = "e_clusters"
    /\ idx <= Len(yc.folders)
    /\ LET folder == yc.folders[idx]
           folder_id == folder.id
           folder_name == IF folder.name # <<>> THEN folder.name ELSE folder_id
           name == cluster_name(folder.cloud_name, folder_name)
           new_comments == cluster_comments(folder_id, folder.description)
           by_name == {x \in DOMAIN nb.clusters : nb.clusters[x].name = name}
       IN IF folder_id = <<>>
          THEN UNCHANGED <<nb, loc, log, fails>>
          ELSE IF by_name # {}
          THEN \E o \in [1..3 -> BOOLEAN] :
                 LET cluster_id == Min(by_name)
                     cluster == nb.clusters[cluster_id]
                     call1 == cluster.comments # new_comments /\ ~cfg.dry_run
                     local1 == IF call1 THEN [cluster EXCEPT !.comments = new_comments]
                               ELSE cluster
                     n1 == IF call1 /\ o[1] THEN [nb EXCEPT !.clusters[cluster_id] = local1]
                           ELSE nb
                     t == ensure_sync_tag(n1, loc, cfg.dry_run, o[2])
                     call3 == t.id # 0 /\ ~cfg.dry_run /\ t.id \notin local1.tags
                     local2 == [local1 EXCEPT !.tags = @ \cup {t.id}]
                     l1 == IF call1 THEN Append(log, Ev("save_cluster", cluster_id, 0, o[1]))
                           ELSE log
                 IN /\ Budgeted(o, (IF call1 THEN {1} ELSE {}) \cup
                                   (IF t.called THEN {2} ELSE {}) \cup
                                   (IF call3 THEN {3} ELSE {}))
                    /\ fails' = FailsAfter(o)
                    /\ nb' = IF call3 /\ o[3]
                             THEN [t.nb EXCEPT !.clusters[cluster_id] = local2]
                             ELSE t.nb
                    /\ log' = IF call3
                              THEN Append(l1, Ev("save_cluster", cluster_id, t.id, o[3]))
                              ELSE l1
                    /\ loc' = [t.loc EXCEPT !.folders = Put(@, folder_id, cluster_id)]
          ELSE IF cfg.dry_run
          THEN /\ loc' = [loc EXCEPT !.folders = Put(@, folder_id, MockId)]
               /\ UNCHANGED <<nb, log, fails>>
          ELSE \E o \in [1..3 -> BOOLEAN] :
                 LET t == ensure_sync_tag(nb, loc, cfg.dry_run, o[2])
                     new_id == t.nb.next
                     cluster == [name |-> name, comments |-> new_comments,
                                 tags |-> IF t.id # 0 THEN {t.id} ELSE {}]
                 IN /\ Budgeted(o, {1} \cup (IF t.called THEN {2} ELSE {}))
                    /\ fails' = FailsAfter(o)
                    /\ nb' = IF o[1]
                             THEN [t.nb EXCEPT !.clusters = @ @@ (new_id :> cluster),
                                               !.next = @ + 1]
                             ELSE t.nb
                    /\ log' = Append(log, Ev("create_cluster", IF o[1] THEN new_id ELSE 0, 0, o[1]))
                    /\ loc' = IF o[1] THEN [t.loc EXCEPT !.folders = Put(@, folder_id, new_id)]
                              ELSE t.loc
    /\ idx' = idx + 1
    /\ UNCHANGED <<yc, cfg, cache, pc, stats, bstats, hist, run>>

(* sync_infrastructure lines 107-145 with ensure_prefix and update_prefix: *)
(* one subnet.  Calls: 1 the scope update or the create, 2 the tag         *)
(* creation, 3 the tag save, 4 the legacy-field update after a failed 1.   *)
EnsurePrefix ==
    /\ pc = "e_prefixes"
    /\ idx <= Len(yc.subnets)
    /\ LET subnet == yc.subnets[idx]
           cidr == subnet.cidr
           site_id == IF subnet.zone_id # <<>> /\ subnet.zone_id \in Keys(loc.zones)
                      THEN Get(loc.zones, subnet.zone_id) ELSE 0
           existing == {x \in DOMAIN nb.prefixes : nb.prefixes[x].prefix = cidr}
       IN IF cidr = <<>>
          THEN UNCHANGED <<nb, loc, log, fails>>
          ELSE IF existing # {}
          THEN \E o \in [1..4 -> BOOLEAN] :
                 LET prefix_id == Min(existing)
                     prefix == nb.prefixes[prefix_id]
                     call1 == site_id # 0 /\ ~cfg.dry_run /\ prefix.site # site_id
                     call4 == call1 /\ ~o[1]
                     scoped == call1 /\ (o[1] \/ o[4])
                     n1 == IF scoped THEN [nb EXCEPT !.prefixes[prefix_id].site = site_id]
                           ELSE nb
                     t == ensure_sync_tag(n1, loc, cfg.dry_run, o[2])
                     call3 == t.id # 0 /\ ~cfg.dry_run /\ t.id \notin prefix.tags
                     l1 == IF call1
                           THEN Append(log, Ev("save_prefix", prefix_id, site_id, scoped))
                           ELSE log
                 IN /\ Budgeted(o, (IF call1 THEN {1} ELSE {}) \cup
                                   (IF t.called THEN {2} ELSE {}) \cup
                                   (IF call3 THEN {3} ELSE {}) \cup
                                   (IF call4 THEN {4} ELSE {}))
                    /\ fails' = FailsAfter(o)
                    /\ nb' = IF call3 /\ o[3]
                             THEN [t.nb EXCEPT !.prefixes[prefix_id].tags = @ \cup {t.id}]
                             ELSE t.nb
                    /\ log' = IF call3
                              THEN Append(l1, Ev("save_prefix", prefix_id, t.id, o[3]))
                              ELSE l1
                    /\ loc' = t.loc
          ELSE IF cfg.dry_run
          THEN UNCHANGED <<nb, loc, log, fails>>
          ELSE \E o \in [1..4 -> BOOLEAN] :
                 LET t == ensure_sync_tag(nb, loc, cfg.dry_run, o[2])
                     new_id == t.nb.next
                     prefix == [prefix |-> cidr, site |-> site_id,
                                tags |-> IF t.id # 0 THEN {t.id} ELSE {}]
                 IN /\ Budgeted(o, {1} \cup (IF t.called THEN {2} ELSE {}))
                    /\ fails' = FailsAfter(o)
                    /\ nb' = IF o[1]
                             THEN [t.nb EXCEPT !.prefixes = @ @@ (new_id :> prefix),
                                               !.next = @ + 1]
                             ELSE t.nb
                    /\ log' = Append(log, Ev("create_prefix", IF o[1] THEN new_id ELSE 0, 0, o[1]))
                    /\ loc' = t.loc
    /\ idx' = idx + 1
    /\ UNCHANGED <<yc, cfg, cache, pc, stats, bstats, hist, run>>

----------------------------------------------------------------------------
(* Initial states: a source extraction, a target and a mode of operation.  *)

OtherTagId == 3

Z1 == <<"ru-central1", "-", "a">>
Z2 == <<"RU", "_", "B">>
ZGone == <<"ru-central1", "-", "x">>
F1 == <<"b1g-folder">>
FGone == <<"b1g-gone">>
Cidr1 == <<"10.0.0.0", "/", "24">>
CidrGone == <<"10.9.0.0", "/", "24">>

GiB == 2^30

YcVm(name, ifaces) ==
    [name |-> name, memory |-> GiB, cores |-> 2, status |-> "RUNNING",
     disks |-> <<[name |-> "d0", size |-> GiB]>>, ifaces |-> ifaces]

If(p4, nat) == [p4 |-> p4, nat |-> nat]

NbVm(name, tags, primary) ==
    [name |-> name, tags |-> tags, primary_ip4 |-> primary,
     memory |-> 1000, vcpus |-> 2, status |-> "active"]

NbIp(addr, iface) ==
    [address |-> addr \o <<"/", "32">>, assigned_object_id |-> iface,
     description |-> IF is_private_ip(addr) THEN "Private IP" ELSE ""]

Eth(vm, i) == [vm |-> vm, name |-> EthName(i)]

Disk(vm, name) == [vm |-> vm, name |-> name, size |-> 1000]

T == {SyncTagId}

VmSources ==
    { <<>>,
      <<YcVm("a", <<If(P1, NoAddr)>>)>>,
      <<YcVm("a", <<If(P1, Q1)>>)>>,
      <<YcVm("a", <<If(Q1, NoAddr), If(P1, NoAddr)>>)>>,
      <<YcVm("a", <<If(P1, NoAddr), If(P2, NoAddr)>>)>>,
      <<YcVm("b", <<If(P1, NoAddr)>>)>>,
      <<YcVm("a", <<If(P2, NoAddr)>>), YcVm("b", <<If(P1, NoAddr)>>)>>,
      <<YcVm("b", <<If(P1, NoAddr)>>), YcVm("a", <<If(P2, NoAddr)>>)>>,
      <<YcVm("a", <<>>), YcVm("b", <<If(P1, Q1)>>)>>,
      <<YcVm("a", <<If(P1, Q1)>>), YcVm("b", <<If(P1, Q1)>>)>>,
      <<YcVm("", <<>>), YcVm("a", <<If(P1, NoAddr)>>), YcVm("b", <<If(P1, NoAddr)>>)>> }

NoVms == [vms |-> EmptyFn, ifaces |-> EmptyFn, ips |-> EmptyFn, disks |-> EmptyFn]

(* A tagged VM and an untagged VM the source does not know, next to a *)
OrphanVms ==
    [vms |-> (1 :> NbVm("a", T, 21)) @@ (2 :> NbVm("o", T, 0)) @@ (3 :> NbVm("c", {}, 0)),
     ifaces |-> (11 :> Eth(1, 0)) @@ (12 :> Eth(2, 0)),
     ips |-> (21 :> NbIp(P1, 11)) @@ (23 :> NbIp(P2, 12)),
     disks |-> (31 :> Disk(1, "d0")) @@ (32 :> Disk(2, "d0"))]

VmTargets ==
    { NoVms,
      \* a holds P1 as primary on eth0: in step with a source that reports P1
      [vms |-> (1 :> NbVm("a", T, 21)), ifaces |-> (11 :> Eth(1, 0)),
       ips |-> (21 :> NbIp(P1, 11)), disks |-> (31 :> Disk(1, "d0"))],
      \* a is stale: memory, no address, a disk the source does not report
      [vms |-> (1 :> [NbVm("a", T, 0) EXCEPT !.memory = 512]), ifaces |-> (11 :> Eth(1, 0)),
       ips |-> EmptyFn, disks |-> (31 :> Disk(1, "old"))],
      \* a holds the public address as primary
      [vms |-> (1 :> NbVm("a", T, 22)), ifaces |-> (11 :> Eth(1, 0)),
       ips |-> (22 :> NbIp(Q1, 11)), disks |-> (31 :> Disk(1, "d0"))],
      \* a holds another public address as primary
      [vms |-> (1 :> NbVm("a", T, 24)), ifaces |-> (11 :> Eth(1, 0)),
       ips |-> (24 :> NbIp(Q2, 11)), disks |-> (31 :> Disk(1, "d0"))],
      \* a holds P1, b holds nothing
      [vms |-> (1 :> NbVm("a", T, 21)) @@ (2 :> NbVm("b", T, 0)),
       ifaces |-> (11 :> Eth(1, 0)) @@ (12 :> Eth(2, 0)),
       ips |-> (21 :> NbIp(P1, 11)),
       disks |-> (31 :> Disk(1, "d0")) @@ (32 :> Disk(2, "d0"))],
      \* a holds P1, b holds P2
      [vms |-> (1 :> NbVm("a", T, 21)) @@ (2 :> NbVm("b", T, 23)),
       ifaces |-> (11 :> Eth(1, 0)) @@ (12 :> Eth(2, 0)),
       ips |-> (21 :> NbIp(P1, 11)) @@ (23 :> NbIp(P2, 12)),
       disks |-> (31 :> Disk(1, "d0")) @@ (32 :> Disk(2, "d0"))],
      \* a holds P1 on eth0 and has P2 on eth1
      [vms |-> (1 :> NbVm("a", T, 21)),
       ifaces |-> (11 :> Eth(1, 0)) @@ (13 :> Eth(1, 1)),
       ips |-> (21 :> NbIp(P1, 11)) @@ (23 :> NbIp(P2, 13)),
       disks |-> (31 :> Disk(1, "d0"))],
      \* a holds P1 and its disk d0 has another size than the source reports
      [vms |-> (1 :> NbVm("a", T, 21)), ifaces |-> (11 :> Eth(1, 0)),
       ips |-> (21 :> NbIp(P1, 11)), disks |-> (31 :> [Disk(1, "d0") EXCEPT !.size = 2000])],
      \* a was made by hand: it carries no tag, and its memory is stale
      [vms |-> (1 :> [NbVm("a", {}, 21) EXCEPT !.memory = 512]), ifaces |-> (11 :> Eth(1, 0)),
       ips |-> (21 :> NbIp(P1, 11)), disks |-> (31 :> Disk(1, "d0"))],
      OrphanVms,
      \* two tagged VMs under one name the source does not know
      [vms |-> (2 :> NbVm("o", T, 0)) @@ (3 :> NbVm("o", T, 0)),
       ifaces |-> EmptyFn, ips |-> EmptyFn, disks |-> EmptyFn] }

Site(zone_id, tags) ==
    [name |-> zone_id, slug |-> site_slug(zone_id),
     description |-> site_description(zone_id), tags |-> tags]

Cluster(folder_id, tags) ==
    [name |-> folder_id, comments |-> cluster_comments(folder_id, <<>>), tags |-> tags]

Prefix(cidr, tags) == [prefix |-> cidr, site |-> 0, tags |-> tags]

NoInfra == [sites |-> EmptyFn, clusters |-> EmptyFn, prefixes |-> EmptyFn]

(* What earlier runs for zone Z1 left behind *)
SettledInfra ==
    [sites |-> (41 :> Site(Z1, T)), clusters |-> EmptyFn, prefixes |-> EmptyFn]

InfraTargets ==
    { NoInfra,
      \* sites and clusters of present and of vanished source objects
      [sites |-> (41 :> Site(Z1, T)) @@ (42 :> Site(ZGone, T)) @@ (43 :> Site(ZGone, {OtherTagId})),
       clusters |-> (51 :> Cluster(F1, T)) @@ (52 :> Cluster(FGone, T)),
       prefixes |-> (61 :> Prefix(Cidr1, T)) @@ (62 :> Prefix(CidrGone, T))],
      \* tagged objects without a recoverable identifier, untagged orphans
      [sites |-> (44 :> [Site(ZGone, T) EXCEPT !.slug = <<>>, !.description = <<"manual">>])
                 @@ (45 :> [Site(ZGone, T) EXCEPT !.slug = <<>>]),
       clusters |-> (52 :> Cluster(FGone, T))
                    @@ (53 :> [Cluster(FGone, T) EXCEPT !.comments = <<"manual">>])
                    @@ (54 :> Cluster(FGone, {})),
       prefixes |-> (63 :> Prefix(CidrGone, {}))],
      \* the site ensure_site creates for zone Z2
      [sites |-> (46 :> Site(Z2, T)), clusters |-> EmptyFn, prefixes |-> EmptyFn] }

Zone(zone_id) == [id |-> zone_id, name |-> zone_id]

Folder(folder_id) ==
    [id |-> folder_id, name |-> folder_id, cloud_name |-> <<>>, description |-> <<>>]

InfraSources ==
    { [zones |-> <<>>, folders |-> <<>>, subnets |-> <<>>],
      [zones |-> <<Zone(Z1)>>, folders |-> <<Folder(F1)>>,
       subnets |-> <<[cidr |-> Cidr1, zone_id |-> Z1]>>],
      [zones |-> <<Zone(Z2)>>, folders |-> <<[Folder(F1) EXCEPT !.cloud_name = <<"cloud">>,
                                                                !.description = <<"prod">>]>>,
       subnets |-> <<[cidr |-> <<>>, zone_id |-> Z2], [cidr |-> Cidr1, zone_id |-> Z2]>>] }

Mode(dry_run, cleanup, fail_budget) ==
    [dry_run |-> dry_run, cleanup |-> cleanup, fail_budget |-> fail_budget]

Modes ==
    { Mode(FALSE, TRUE, 0), Mode(FALSE, TRUE, MaxFailures), Mode(TRUE, TRUE, 0),
      Mode(FALSE, FALSE, 0) }

FirstId == 100

Target(tag, infra, v) ==
    [tag |-> tag, sites |-> infra.sites, clusters |-> infra.clusters,
     prefixes |-> infra.prefixes,
     cluster_type |-> IF tag # 0 THEN [id |-> 71, tags |-> {tag}] ELSE [id |-> 0, tags |-> {}],
     vms |-> v.vms, ifaces |-> v.ifaces, ips |-> v.ips, disks |-> v.disks, next |-> FirstId]

Source(i, v, has_fetch_errors) ==
    [zones |-> i.zones, folders |-> i.folders, subnets |-> i.subnets, vms |-> v,
     has_fetch_errors |-> has_fetch_errors]

(* A target without the sync tag holds nothing that carries it *)
Untagged(f) == [x \in DOMAIN f |-> [f[x] EXCEPT !.tags = @ \ {SyncTagId}]]

InitVmFamily ==
    /\ cfg \in Modes
    /\ \E v \in VmSources, has_fetch_errors \in BOOLEAN :
         /\ has_fetch_errors => cfg = Mode(FALSE, TRUE, 0)
         /\ yc = Source([zones |-> <<Zone(Z1)>>, folders |-> <<>>, subnets |-> <<>>],
                        v, has_fetch_errors)
    /\ \E v \in VmTargets : nb = Target(SyncTagId, SettledInfra, v)

InitInfraFamily ==
    /\ cfg \in Modes
    /\ \E i \in InfraSources, has_fetch_errors \in BOOLEAN :
         /\ has_fetch_errors => cfg = Mode(FALSE, TRUE, 0)
         /\ \E with_vms \in BOOLEAN :
              /\ yc = Source(i, IF with_vms THEN <<YcVm("a", <<If(P1, NoAddr)>>)>> ELSE <<>>,
                             has_fetch_errors)
              /\ \E j \in InfraTargets, tag \in {0, SyncTagId} :
                   nb = IF tag = 0
                        THEN Target(0, [sites |-> Untagged(j.sites),
                                        clusters |-> Untagged(j.clusters),
                                        prefixes |-> Untagged(j.prefixes)], NoVms)
                        ELSE Target(tag, j, IF with_vms THEN OrphanVms ELSE NoVms)

Init ==
    /\ InitVmFamily \/ InitInfraFamily
    /\ cache = EmptyCache
    /\ loc = InitLoc
    /\ pc = "idle"
    /\ idx = 1
    /\ stats = ZeroStats
    /\ bstats = ZeroBatchStats
    /\ log = <<>>
    /\ hist = [prev_clean |-> FALSE, start_nb |-> nb, start_fails |-> 0]
    /\ run = 0
    /\ fails = 0

Next ==
    \/ StartRun
    \/ InfraStart
    \/ CleanupListing
    \/ CleanupSite
    \/ CleanupCluster
    \/ CleanupPrefix
    \/ EnsureSite
    \/ EnsureClusterType
    \/ EnsureCluster
    \/ EnsurePrefix
    \/ LoadCache
    \/ OrphanVm
    \/ PlanVm
    \/ ApplyStart
    \/ Step1UnsetPrimary
    \/ Step2DeleteDisk
    \/ Step3CreateInterface
    \/ Step3bResolveReassignments
    \/ Step4UpdateIp
    \/ Step5CreateIp
    \/ Step5bResolvePrimaries
    \/ Step6CreateDisk
    \/ Step7UpdateVm
    \/ Step8SetPrimary
    \/ Advance

Spec == Init /\ [][Next]_vars

----------------------------------------------------------------------------
(* Properties *)

QueuesEmpty == cache.q = EmptyQueues

(* The planning of a run that follows a complete, error-free run is over    *)
SecondPlanDone == run >= 2 /\ hist.prev_clean /\ pc = "apply"

(* C1: after one complete, error-free batch run, the run that follows on   *)
(* the same source and the resulting target queues no mutation and reports *)
(* created = 0, updated = 0 and every source VM as skipped.                *)
C1_IdempotentConvergence ==
    SecondPlanDone =>
        /\ QueuesEmpty
        /\ stats.created = 0
        /\ stats.updated = 0
        /\ stats.skipped = Len(yc.vms)

PrimaryHolders(n, ip_id) == {v \in DOMAIN n.vms : n.vms[v].primary_ip4 = ip_id}

(* C2: in every state reached during and after a batch run, each address   *)
(* is the primary address of at most one VM of the target.                 *)
C2_OnePrimary ==
    \A ip_id \in DOMAIN nb.ips : Cardinality(PrimaryHolders(nb, ip_id)) <= 1

Tagged(r) == nb.tag # 0 /\ nb.tag \in r.tags

SiteUnattributable(site) == site.slug = <<>> /\ ~Contains(site.description, ZoneMarker)

ClusterUnattributable(cluster) == ~Contains(cluster.comments, FolderMarker)

(* C3: no step deletes a site, cluster, prefix or VM that does not carry   *)
(* the sync tag, nor a tagged site or cluster whose source identifier      *)
(* cannot be recovered.                                                    *)
C3_OrphanSafety ==
    [][/\ \A x \in DOMAIN nb.sites \ DOMAIN nb'.sites :
            Tagged(nb.sites[x]) /\ ~SiteUnattributable(nb.sites[x])
       /\ \A x \in DOMAIN nb.clusters \ DOMAIN nb'.clusters :
            Tagged(nb.clusters[x]) /\ ~ClusterUnattributable(nb.clusters[x])
       /\ \A x \in DOMAIN nb.prefixes \ DOMAIN nb'.prefixes : Tagged(nb.prefixes[x])
       /\ \A x \in DOMAIN nb.vms \ DOMAIN nb'.vms : Tagged(nb.vms[x])]_vars

Deleted(op) == \E i \in 1..Len(log) : log[i].op = op /\ log[i].ok

(* A run has deleted orphans of each kind and has left in place an         *)
(* untagged object and a tagged object without identifier.                 *)
C3_Witness ==
    /\ Deleted("delete_site")
    /\ Deleted("delete_cluster")
    /\ \E x \in DOMAIN nb.sites : Tagged(nb.sites[x]) /\ SiteUnattributable(nb.sites[x])
    /\ \E x \in DOMAIN nb.clusters : ~Tagged(nb.clusters[x])
    /\ Deleted("delete_vm")
    /\ \E x \in DOMAIN nb.vms : ~Tagged(nb.vms[x])
    /\ pc = "done"

(* C4: when the extraction carries its incomplete-data flag, no step of    *)
(* the run deletes anything from the target.                               *)
C4_NoDeletionOnFetchErrors ==
    [][yc.has_fetch_errors =>
         /\ DOMAIN nb.sites \subseteq DOMAIN nb'.sites
         /\ DOMAIN nb.clusters \subseteq DOMAIN nb'.clusters
         /\ DOMAIN nb.prefixes \subseteq DOMAIN nb'.prefixes
         /\ DOMAIN nb.vms \subseteq DOMAIN nb'.vms
         /\ DOMAIN nb.ifaces \subseteq DOMAIN nb'.ifaces
         /\ DOMAIN nb.ips \subseteq DOMAIN nb'.ips
         /\ DOMAIN nb.disks \subseteq DOMAIN nb'.disks]_vars

TaggedAtStart(r) == hist.start_nb.tag # 0 /\ hist.start_nb.tag \in r.tags

(* A run with cleanup requested, on a complete extraction, has ended       *)
(* without dry-run and without a target call that raised.                  *)
CleanupRunDone ==
    /\ pc = "done"
    /\ run = 1
    /\ cfg.cleanup
    /\ ~cfg.dry_run
    /\ ~yc.has_fetch_errors
    /\ fails = 0

(* C5: such a run deletes a site, cluster or VM if and only if it carries  *)
(* the sync tag and the identifier recovered for it is absent from the     *)
(* extraction; an entity whose source object is present stays.             *)
C5_OrphanEligibilityExact ==
    CleanupRunDone =>
        /\ \A x \in DOMAIN hist.start_nb.sites :
             LET site == hist.start_nb.sites[x]
             IN /\ x \notin DOMAIN nb.sites <=>
                     /\ TaggedAtStart(site)
                     /\ site_zone_id(site) # <<>>
                     /\ site_zone_id(site) \notin yc_zones
                /\ (\E z \in yc_zones : site.description = site_description(z))
                     => x \in DOMAIN nb.sites
        /\ \A x \in DOMAIN hist.start_nb.clusters :
             LET cluster == hist.start_nb.clusters[x]
             IN x \notin DOMAIN nb.clusters <=>
                  /\ TaggedAtStart(cluster)
                  /\ cluster_folder_id(cluster) # <<>>
                  /\ cluster_folder_id(cluster) \notin yc_folders
        /\ \A x \in DOMAIN hist.start_nb.vms :
             LET vm == hist.start_nb.vms[x]
             IN x \notin DOMAIN nb.vms <=> TaggedAtStart(vm) /\ vm.name \notin yc_vm_names

(* At the start of the run address x is the primary of VM a, attached to  *)
(* one of a's interfaces                                                   *)
HeldAtStart(x, a) ==
    LET n == hist.start_nb
    IN /\ a \in DOMAIN n.vms
       /\ n.vms[a].primary_ip4 = x
       /\ x \in DOMAIN n.ips
       /\ n.ips[x].assigned_object_id \in DOMAIN n.ifaces
       /\ n.ifaces[n.ips[x].assigned_object_id].vm = a

IfaceOf(b, i) == i \in DOMAIN nb.ifaces /\ nb.ifaces[i].vm = b

ClearedBefore(a, k) == \E i \in 1..(k - 1) : log[i].op = "unset_primary" /\ log[i].id = a

SwitchedBefore(x, b, k) ==
    \E j \in 1..(k - 1) : log[j].op = "save_ip" /\ log[j].id = x /\ IfaceOf(b, log[j].arg)

VmOps ==
    {"delete_vm", "create_vm", "unset_primary", "delete_disk", "create_interface",
     "save_ip", "create_ip", "create_disk", "save_vm", "set_primary"}

VmPart(n) == <<n.vms, n.ifaces, n.ips, n.disks>>

(* C7: under dry-run the batch VM sync issues no create, save or delete    *)
(* against a VM, interface, address or disk, and these stay as they were.  *)
C7_DryRunLeavesTargetUnchanged ==
    cfg.dry_run =>
        /\ \A i \in 1..Len(log) : log[i].op \notin VmOps
        /\ VmPart(nb) = VmPart(hist.start_nb)

(* A dry run has finished in which a VM would have been created, a VM      *)
(* would have been deleted and a VM would have been updated.               *)
C7_Witness ==
    /\ cfg.dry_run
    /\ pc = "done"
    /\ stats.created > 0
    /\ stats.deleted > 0
    /\ \/ stats.updated > 0
       \/ \E v \in DOMAIN nb.vms : nb.vms[v].primary_ip4 # 0

(* The VM's primary address is private and attached to one of the VM's own *)
(* interfaces in the snapshot.                                             *)
StablePrimary(c, v) ==
    LET p == c.vms[v].primary_ip4
    IN /\ p # 0
       /\ p \in DOMAIN c.ips
       /\ is_private_ip(get_ip_without_cidr(c.ips[p].address))
       /\ \E i \in DOMAIN c.ifaces :
            c.ifaces[i].vm = v /\ c.ips[p].assigned_object_id = i

(* The source VMs that were planned: those with a record in the snapshot.  *)
Planned == {i \in 1..Len(yc.vms) : yc.vms[i].name # ""
                                   /\ yc.vms[i].name \in DOMAIN cache.vms_by_name}

(* Another planned source VM reports the VM's primary address as the       *)
(* primary IPv4 address of one of its interfaces.                          *)
TakenByOther(v) ==
    \E i \in Planned :
        /\ cache.vms_by_name[yc.vms[i].name] # v
        /\ \E j \in 1..Len(yc.vms[i].ifaces) :
             LET p4 == yc.vms[i].ifaces[j].p4
             IN /\ p4 # NoAddr
                /\ ips_by_address(cache, get_ip_without_cidr(p4)) = cache.vms[v].primary_ip4

(* C8 as stated: after planning a whole source extraction, a VM whose      *)
(* primary address is private and on one of its own interfaces has no      *)
(* entry in primary_ip_changes, not even a clear.                          *)
C8_Original ==
    pc = "apply" =>
        \A v \in DOMAIN cache.vms :
            StablePrimary(cache, v) => v \notin Keys(cache.q.primary_ip_changes)

(* C8 amended: after planning a whole source extraction, a VM whose        *)
(* primary address is private and on one of its own interfaces has no new  *)
(* id and no "pending" in primary_ip_changes; it has the clear exactly     *)
(* when another planned source VM reports that address as an interface's   *)
(* primary IPv4 address, and no entry otherwise.                           *)
C8_PrimaryStability ==
    pc = "apply" =>
        \A v \in DOMAIN cache.vms :
            StablePrimary(cache, v) =>
                IF TakenByOther(v)
                THEN /\ v \in Keys(cache.q.primary_ip_changes)
                     /\ Get(cache.q.primary_ip_changes, v) = NoneVal
                ELSE v \notin Keys(cache.q.primary_ip_changes)

(* Planning is complete for a source VM whose private primary address is   *)
(* on eth0 while another private address sits on its eth1, and nothing was *)
(* queued for its primary.                                                 *)
C8_Witness ==
    /\ pc = "apply"
    /\ \E v \in DOMAIN cache.vms :
         /\ StablePrimary(cache, v)
         /\ \E i \in Planned : cache.vms_by_name[yc.vms[i].name] = v
                               /\ Len(yc.vms[i].ifaces) > 0
         /\ \E q \in DOMAIN cache.ips :
              /\ q # cache.vms[v].primary_ip4
              /\ is_private_ip(get_ip_without_cidr(cache.ips[q].address))
              /\ cache.ips[q].assigned_object_id \in DOMAIN cache.ifaces
              /\ cache.ifaces[cache.ips[q].assigned_object_id].vm = v
              /\ cache.ips[q].assigned_object_id
                   # cache.ips[cache.vms[v].primary_ip4].assigned_object_id
         /\ v \notin Keys(cache.q.primary_ip_changes)

(* The addresses source VM i reports: the private primary IPv4 addresses   *)
(* in interface order, and every address of any kind.                      *)
PrivateAddrs(i) ==
    LET ifs == yc.vms[i].ifaces
    IN {ifs[j].p4 : j \in {k \in 1..Len(ifs) : ifs[k].p4 # NoAddr /\ is_private_ip(ifs[k].p4)}}

PublicAddrs(i) ==
    LET ifs == yc.vms[i].ifaces
    IN {ifs[j].p4 : j \in {k \in 1..Len(ifs) : ifs[k].p4 # NoAddr /\ ~is_private_ip(ifs[k].p4)}}
       \cup {ifs[j].nat : j \in {k \in 1..Len(ifs) : ifs[k].nat # NoAddr}}

FirstPrivate(i) ==
    LET ifs == yc.vms[i].ifaces
        k == Min({j \in 1..Len(ifs) : ifs[j].p4 # NoAddr /\ is_private_ip(ifs[j].p4)})
    IN ifs[k].p4

HeldBy(n, base) == {x \in DOMAIN n.ips : get_ip_without_cidr(n.ips[x].address) = base}

(* Source VM i carries a private and a public or NAT address, and the      *)
(* target held none of its addresses when the run started.                 *)
BothNew(i) ==
    /\ PrivateAddrs(i) # {}
    /\ PublicAddrs(i) # {}
    /\ \A a \in PrivateAddrs(i) \cup PublicAddrs(i) :
         HeldBy(hist.start_nb, get_ip_without_cidr(a)) = {}

(* C9: a VM whose source interfaces carry a private and a public or NAT    *)
(* address, all new to the target in this run, has the private address in  *)
(* pending_primary_ips after planning, and after an error-free run its     *)
(* primary address is the private record created in the run.               *)
C9_PrivateOverPublic ==
    \A i \in 1..Len(yc.vms) :
        (pc \in {"apply", "done"} /\ i \in Planned /\ BothNew(i)) =>
            LET v == cache.vms_by_name[yc.vms[i].name]
            IN /\ pc = "apply" =>
                    /\ v \in Keys(cache.q.pending_primary_ips)
                    /\ Get(cache.q.pending_primary_ips, v)
                         = ensure_cidr_notation(FirstPrivate(i))
               /\ (pc = "done" /\ ~cfg.dry_run /\ RunClean) =>
                    \E x \in DOMAIN nb.ips \ DOMAIN hist.start_nb.ips :
                        /\ nb.vms[v].primary_ip4 = x
                        /\ get_ip_without_cidr(nb.ips[x].address) \in PrivateAddrs(i)

(* An error-free run has ended, and source VM i, which had no record in    *)
(* the target when the run started, has one interface with a private       *)
(* address and a NAT address.                                              *)
AbsentWithNat(i) ==
    LET yc_vm == yc.vms[i]
    IN /\ pc = "done" /\ ~cfg.dry_run /\ RunClean
       /\ yc_vm.name # ""
       /\ \A v \in DOMAIN hist.start_nb.vms : hist.start_nb.vms[v].name # yc_vm.name
       /\ Len(yc_vm.ifaces) = 1
       /\ yc_vm.ifaces[1].p4 # NoAddr /\ is_private_ip(yc_vm.ifaces[1].p4)
       /\ yc_vm.ifaces[1].nat # NoAddr

(* The target held none of the addresses of source VM i when the run       *)
(* started, and no other source VM reports one of them.                    *)
FreshAddrs(i) ==
    LET mine == PrivateAddrs(i) \cup PublicAddrs(i)
    IN /\ \A a \in mine : HeldBy(hist.start_nb, get_ip_without_cidr(a)) = {}
       /\ \A k \in 1..Len(yc.vms) :
            k # i => (PrivateAddrs(k) \cup PublicAddrs(k)) \cap mine = {}

(* The run created the VM, then one interface eth0 for it, then two        *)
(* addresses on that interface, and the VM's primary is the private one.   *)
CreatedInFull(i) ==
    LET yc_vm == yc.vms[i]
        v == cache.vms_by_name[yc_vm.name]
        vmEv == {k \in 1..Len(log) : log[k].op = "create_vm" /\ log[k].id = v /\ log[k].ok}
        ifEv == {k \in 1..Len(log) : log[k].op = "create_interface" /\ log[k].arg = v}
    IN /\ yc_vm.name \in DOMAIN cache.vms_by_name
       /\ Cardinality(vmEv) = 1
       /\ Cardinality(ifEv) = 1
       /\ LET kv == CHOOSE k \in vmEv : TRUE
              ki == CHOOSE k \in ifEv : TRUE
              f == log[ki].id
              ipEv == {k \in 1..Len(log) : log[k].op = "create_ip" /\ log[k].arg = f}
          IN /\ log[ki].ok
             /\ kv < ki
             /\ nb.ifaces[f].name = EthName(0)
             /\ Cardinality(ipEv) = 2
             /\ \A k \in ipEv : log[k].ok /\ ki < k
             /\ {get_ip_without_cidr(nb.ips[log[k].id].address) : k \in ipEv}
                  = {get_ip_without_cidr(yc_vm.ifaces[1].p4),
                     get_ip_without_cidr(yc_vm.ifaces[1].nat)}
             /\ \E k \in ipEv :
                  /\ get_ip_without_cidr(nb.ips[log[k].id].address)
                       = get_ip_without_cidr(yc_vm.ifaces[1].p4)
                  /\ nb.vms[v].primary_ip4 = log[k].id

(* C10 as stated: for a source VM absent from the target with one          *)
(* interface carrying a private and a NAT address, an error-free run       *)
(* creates the VM, then one interface eth0, then two addresses on that     *)
(* interface, and sets the VM's primary to the created private record.     *)
C10_Original ==
    \A i \in 1..Len(yc.vms) : AbsentWithNat(i) => CreatedInFull(i)

(* C10 amended: the same, for a source VM whose two addresses no target    *)
(* record held when the run started and no other source VM reports.        *)
C10_EndToEndCreation ==
    \A i \in 1..Len(yc.vms) : (AbsentWithNat(i) /\ FreshAddrs(i)) => CreatedInFull(i)

(* An error-free run has created such a VM in full.                        *)
C10_Witness ==
    \E i \in 1..Len(yc.vms) : AbsentWithNat(i) /\ FreshAddrs(i) /\ CreatedInFull(i)

----------------------------------------------------------------------------
(* The applicator *)

ApplyPhases == {"s1", "s2", "s3", "s3b", "s4", "s5", "s5b", "s6", "s7", "s8"}

ApplyOps ==
    {"unset_primary", "delete_disk", "create_interface", "save_ip", "create_ip",
     "create_disk", "save_vm", "set_primary"}

(* C11: called with dry_run set, apply_batch_updates executes none of its  *)
(* steps and returns statistics in which every counter is 0, whatever the  *)
(* mutation queues contain.                                                *)
C11_ApplicatorDryRun ==
    cfg.dry_run =>
        /\ bstats = ZeroBatchStats
        /\ pc \notin ApplyPhases
        /\ \A i \in 1..Len(log) : log[i].op \notin ApplyOps
        /\ loc.created_interfaces = InitLoc.created_interfaces
        /\ loc.created_ips = InitLoc.created_ips

(* A dry run has returned from the applicator with mutations of several    *)
(* kinds in the queues.                                                    *)
C11_Witness ==
    /\ cfg.dry_run
    /\ pc = "done"
    /\ cache.q.ips_to_create # <<>>
    /\ cache.q.primary_ip_changes # <<>>
    /\ cache.q.disks_to_delete # <<>> \/ cache.q.vms_to_update # <<>>
                                     \/ cache.q.interfaces_to_create # <<>>

----------------------------------------------------------------------------
(* The source extraction: YandexCloudClient.fetch_all_data.  loc holds the  *)
(* cloud as its API would answer and the locals of the extraction, yc the   *)
(* result under construction, log the API calls made with their outcomes.   *)

ApiVm(name, boot, secondary) ==
    [name |-> name, status |-> "RUNNING", memory |-> GiB, cores |-> 2,
     boot |-> boot, secondary |-> secondary, ifaces |-> <<If(P1, NoAddr)>>]

ApiFolder(folder_id, vms) ==
    [id |-> folder_id, vpcs |-> <<"net">>,
     subnets |-> <<[cidr |-> Cidr1, zone_id |-> Z1]>>, vms |-> vms]

ApiClouds ==
    { [zones |-> <<Zone(Z1)>>, folders |-> <<>>],
      [zones |-> <<Zone(Z1)>>,
       folders |-> <<ApiFolder(F1, <<ApiVm("a", "bd", <<"sd">>)>>)>>],
      [zones |-> <<Zone(Z1), Zone(Z2)>>,
       folders |-> <<ApiFolder(F1, <<ApiVm("a", "bd", <<>>), ApiVm("b", "", <<"sd">>)>>),
                     ApiFolder(FGone, <<>>)>>] }

EmptyResult ==
    [zones |-> <<>>, folders |-> <<>>, vpcs |-> <<>>, subnets |-> <<>>, vms |-> <<>>,
     has_fetch_errors |-> FALSE]

FetchLoc(api) ==
    [api |-> api, folders |-> <<>>, vms |-> <<>>, v |-> 1, disk_ids |-> <<>>, d |-> 1,
     disks |-> <<>>, os |-> ""]

FetchInit ==
    /\ \E api \in ApiClouds : loc = FetchLoc(api)
    /\ yc = EmptyResult
    /\ pc = "f_zones"
    /\ idx = 1
    /\ log = <<>>
    /\ nb = Target(0, NoInfra, NoVms)
    /\ cfg = Mode(FALSE, TRUE, 0)
    /\ cache = EmptyCache
    /\ stats = ZeroStats
    /\ bstats = ZeroBatchStats
    /\ hist = [prev_clean |-> FALSE, start_nb |-> nb, start_fails |-> 0]
    /\ run = 0
    /\ fails = 0

FetchFrame == UNCHANGED <<nb, cfg, cache, stats, bstats, hist, run, fails>>

(* Lines 187-198: the zone list, or the four default zones *)
FetchZones ==
    /\ pc = "f_zones"
    /\ \E ok \in BOOLEAN :
         /\ yc' = [yc EXCEPT !.zones = IF ok THEN loc.api.zones ELSE DefaultZones]
         /\ log' = Append(log, Ev("fetch_zones", 0, 0, ok))
    /\ pc' = "f_clouds"
    /\ UNCHANGED <<loc, idx>>
    /\ FetchFrame

(* Line 200: fetch_clouds is not guarded; a failure ends the extraction *)
FetchClouds ==
    /\ pc = "f_clouds"
    /\ \E ok \in BOOLEAN :
         /\ log' = Append(log, Ev("fetch_clouds", 0, 0, ok))
         /\ pc' = IF ok THEN "f_folders" ELSE "f_raised"
    /\ UNCHANGED <<yc, loc, idx>>
    /\ FetchFrame

(* Line 210: fetch_folders is not guarded either *)
FetchFolders ==
    /\ pc = "f_folders"
    /\ \E ok \in BOOLEAN :
         /\ log' = Append(log, Ev("fetch_folders", 0, 0, ok))
         /\ loc' = IF ok THEN [loc EXCEPT !.folders = loc.api.folders] ELSE loc
         /\ pc' = IF ~ok THEN "f_raised"
                  ELSE IF loc.api.folders = <<>> THEN "f_done" ELSE "f_vpcs"
    /\ idx' = 1
    /\ UNCHANGED yc
    /\ FetchFrame

(* Lines 211-240: the folder's record and its VPCs *)
FetchVpcs ==
    /\ pc = "f_vpcs"
    /\ LET folder == loc.folders[idx]
       IN \E ok \in BOOLEAN :
            /\ yc' = [yc EXCEPT !.folders = Append(@, Folder(folder.id)),
                                !.vpcs = IF ok THEN @ \o folder.vpcs ELSE @,
                                !.has_fetch_errors = IF ok THEN @ ELSE TRUE]
            /\ log' = Append(log, Ev("fetch_vpcs", idx, 0, ok))
    /\ pc' = "f_subnets"
    /\ UNCHANGED <<loc, idx>>
    /\ FetchFrame

(* Lines 242-270: the folder's subnets *)
FetchSubnets ==
    /\ pc = "f_subnets"
    /\ LET folder == loc.folders[idx]
       IN \E ok \in BOOLEAN :
            /\ yc' = [yc EXCEPT !.subnets = IF ok THEN @ \o folder.subnets ELSE @,
                                !.has_fetch_errors = IF ok THEN @ ELSE TRUE]
            /\ log' = Append(log, Ev("fetch_subnets", idx, 0, ok))
    /\ pc' = "f_vms"
    /\ UNCHANGED <<loc, idx>>
    /\ FetchFrame

(* The position after the last VM of folder idx *)
NextFolder == IF idx < Len(loc.folders) THEN "f_vpcs" ELSE "f_done"

(* Lines 272-279: the folder's instances *)
FetchVmsInFolder ==
    /\ pc = "f_vms"
    /\ LET folder == loc.folders[idx]
       IN \E ok \in BOOLEAN :
            LET folder_vms == IF ok THEN folder.vms ELSE <<>>
            IN /\ yc' = [yc EXCEPT !.has_fetch_errors = IF ok THEN @ ELSE TRUE]
               /\ log' = Append(log, Ev("fetch_vms_in_folder", idx, 0, ok))
               /\ loc' = [loc EXCEPT !.vms = folder_vms, !.v = 1]
               /\ pc' = IF folder_vms = <<>> THEN NextFolder ELSE "f_os"
               /\ idx' = IF folder_vms = <<>> /\ idx < Len(loc.folders) THEN idx + 1 ELSE idx
    /\ FetchFrame

(* Lines 295-314: the disk ids of the VM; the boot disk's image names the  *)
(* OS, and a failure of that lookup is passed over                         *)
FetchOs ==
    /\ pc = "f_os"
    /\ LET vm == loc.vms[loc.v]
           disk_ids == (IF vm.boot # "" THEN <<vm.boot>> ELSE <<>>) \o vm.secondary
       IN IF vm.boot # ""
          THEN \E ok \in BOOLEAN :
                 /\ log' = Append(log, Ev("fetch_image", idx, loc.v, ok))
                 /\ loc' = [loc EXCEPT !.os = IF ok THEN "image" ELSE "",
                                       !.disk_ids = disk_ids, !.d = 1, !.disks = <<>>]
          ELSE /\ log' = log
               /\ loc' = [loc EXCEPT !.os = "", !.disk_ids = disk_ids, !.d = 1,
                                     !.disks = <<>>]
    /\ pc' = "f_disk"
    /\ UNCHANGED <<yc, idx>>
    /\ FetchFrame

(* Lines 319-329: one disk of the VM; a disk that cannot be fetched is     *)
(* left out of the VM's disk list                                          *)
FetchDisk ==
    /\ pc = "f_disk"
    /\ loc.d <= Len(loc.disk_ids)
    /\ \E ok \in BOOLEAN :
         /\ log' = Append(log, Ev("fetch_disk", idx, loc.v, ok))
         /\ loc' = [loc EXCEPT
                      !.disks = IF ok THEN Append(@, [name |-> loc.disk_ids[loc.d],
                                                      size |-> GiB])
                                ELSE @,
                      !.d = @ + 1]
    /\ UNCHANGED <<yc, pc, idx>>
    /\ FetchFrame

(* Lines 339-387: the VM's record joins the result *)
AppendVm ==
    /\ pc = "f_disk"
    /\ loc.d > Len(loc.disk_ids)
    /\ LET vm == loc.vms[loc.v]
           last == loc.v = Len(loc.vms)
       IN /\ yc' = [yc EXCEPT !.vms = Append(@, [name |-> vm.name, memory |-> vm.memory,
                                                 cores |-> vm.cores, status |-> vm.status,
                                                 disks |-> loc.disks, ifaces |-> vm.ifaces,
                                                 os |-> loc.os])]
          /\ loc' = [loc EXCEPT !.v = IF last THEN 1 ELSE @ + 1]
          /\ pc' = IF last THEN NextFolder ELSE "f_os"
          /\ idx' = IF last /\ idx < Len(loc.folders) THEN idx + 1 ELSE idx
    /\ UNCHANGED log
    /\ FetchFrame

FetchNext ==
    \/ FetchZones
    \/ FetchClouds
    \/ FetchFolders
    \/ FetchVpcs
    \/ FetchSubnets
    \/ FetchVmsInFolder
    \/ FetchOs
    \/ FetchDisk
    \/ AppendVm

FetchSpec == FetchInit /\ [][FetchNext]_vars

(* The sub-fetches whose data the extraction defaults or leaves out        *)
DefaultedFetches ==
    {"fetch_zones", "fetch_vpcs", "fetch_subnets", "fetch_vms_in_folder", "fetch_disk"}

(* C12: when a sub-fetch has failed and its data was defaulted or omitted  *)
(* (zone list, a folder's VPCs, subnets or instances, a VM's disk), the    *)
(* extraction fetch_all_data returns has _has_fetch_errors set.            *)
C12_IncompleteDataFlag ==
    pc = "f_done" =>
        ((\E i \in 1..Len(log) : log[i].op \in DefaultedFetches /\ ~log[i].ok)
            => yc.has_fetch_errors)


----------------------------------------------------------------------------
(* parse_memory_mb as a function of the source value                        *)
(*                                                                          *)
(* A source memory value is written hi * 2^20 + lo with 0 <= lo < 2^20, so  *)
(* that values of 4 GiB and more stay within the checker's integers.  The   *)
(* string form of a value goes through the same three branches after its    *)
(* digits are extracted (vms.py 26-37), so only the integer form is drawn.  *)

MaxGiB == 8

MemoryLows == {0, 1, 4, 512, 999, 1000, 2048, 4096, 999999, 1000000, 1048575}
MemoryHighs == {0, 1, 512, 1536} \cup {k * 1024 : k \in 1..MaxGiB}
MemoryInputs == [hi : MemoryHighs, lo : MemoryLows]

(* vms.py 22-55 on the value m.hi * 2^20 + m.lo: below 2^20 the value is    *)
(* m.lo and any of the three branches may apply, from 2^20 on it is above   *)
(* the second threshold and is taken as bytes.                              *)
parse_memory_wide(m) ==
    IF m.hi = 0 THEN parse_memory_mb(m.lo) ELSE BytesToMbWide(m.hi, m.lo)

MemInit ==
    /\ \E m \in MemoryInputs : loc = m
    /\ yc = [memory_mb |-> -1]
    /\ pc = "m_in"
    /\ idx = 1
    /\ log = <<>>
    /\ nb = Target(0, NoInfra, NoVms)
    /\ cfg = Mode(FALSE, TRUE, 0)
    /\ cache = EmptyCache
    /\ stats = ZeroStats
    /\ bstats = ZeroBatchStats
    /\ hist = [prev_clean |-> FALSE, start_nb |-> nb, start_fails |-> 0]
    /\ run = 0
    /\ fails = 0

ParseMemory ==
    /\ pc = "m_in"
    /\ yc' = [memory_mb |-> parse_memory_wide(loc)]
    /\ pc' = "m_out"
    /\ UNCHANGED <<nb, cfg, cache, loc, idx, stats, bstats, log, hist, run, fails>>

MemNext == ParseMemory

MemSpec == MemInit /\ [][MemNext]_vars

MemoryIs(hi, lo) == pc = "m_out" /\ loc = [hi |-> hi, lo |-> lo]

----------------------------------------------------------------------------
(* C14: the steps of apply_batch_updates *)

StepRank ==
    [p \in ApplyPhases |->
        CASE p = "s1" -> 1 [] p = "s2" -> 2 [] p \in {"s3", "s3b"} -> 3 [] p = "s4" -> 4
          [] p \in {"s5", "s5b"} -> 5 [] p = "s6" -> 6 [] p = "s7" -> 7 [] OTHER -> 8]

(* The target calls each step issues.  Step 4 applies the queued           *)
(* reassignments (ips_to_update); the save_ip of step 5 is the client's     *)
(* create_ip finding the address already recorded, the save_ip of step 8    *)
(* is the attachment that precedes a primary-address set.                   *)
StepOps ==
    [p \in ApplyPhases |->
        CASE p = "s1" -> {"unset_primary"}
          [] p = "s2" -> {"delete_disk"}
          [] p = "s3" -> {"create_interface"}
          [] p = "s4" -> {"save_ip"}
          [] p = "s5" -> {"create_ip", "save_ip"}
          [] p = "s6" -> {"create_disk"}
          [] p = "s7" -> {"save_vm"}
          [] p = "s8" -> {"save_ip", "set_primary"}
          [] OTHER -> {}]

Appended == IF Len(log') > Len(log) THEN {log'[i].op : i \in (Len(log) + 1)..Len(log')} ELSE {}

OpsLogged == {log[i].op : i \in 1..Len(log)}

----------------------------------------------------------------------------
(* C15: the attachment that precedes a primary-address set *)

(* The target holds address ip_id on an interface of VM vm_id *)
AttachedToVm(n, ip_id, vm_id) ==
    /\ ip_id \in DOMAIN n.ips
    /\ n.ips[ip_id].assigned_object_id \in DOMAIN n.ifaces
    /\ n.ifaces[n.ips[ip_id].assigned_object_id].vm = vm_id

(* C15: when the primary-set step saves a VM with primary address a, a is   *)
(* on an interface of that VM in the target; and the step re-assigns a only *)
(* if a was on no interface of the VM, interfaces created earlier in the    *)
(* run included, so an address put on eth{k} in this run is not moved.      *)
C15_AttachBeforePrimary ==
    [][(pc = "s8" /\ Len(log') > Len(log)) =>
           LET e == cache.q.primary_ip_changes[idx]
               first == log'[Len(log) + 1]
               last == log'[Len(log')]
           IN /\ first.op = "save_ip" => ~AttachedToVm(nb, first.id, e.k)
              /\ (last.op = "set_primary" /\ last.ok) => AttachedToVm(nb', last.arg, e.k)]_vars


----------------------------------------------------------------------------
(* C16: a failed target call and the mutations that do not depend on it *)

Logged(op, id) == \E i \in 1..Len(log) : log[i].op = op /\ log[i].id = id

CountOp(op) == Cardinality({i \in 1..Len(log) : log[i].op = op})

FailedCalls == {i \in 1..Len(log) : log[i].op \in ApplyOps /\ ~log[i].ok}

(* The applicator has returned its statistics in a run that applied *)
Applied == pc = "done" /\ run > 0 /\ ~cfg.dry_run /\ ~loc.aborted /\ cache.vms_by_name # <<>>

(* An address creation is attempted: create_ip was called with the entry,  *)
(* which shows as a target call or as an entry of created_ips.              *)
CreateAttempted(ip_data) ==
    LET ref == ip_data.assigned_object_id
        assigned == IF ref.pending THEN Get(loc.created_interfaces, LookupKey(ref)) ELSE ref.id
    IN \/ \E i \in 1..Len(log) : log[i].op \in {"create_ip", "save_ip"} /\ log[i].arg = assigned
       \/ get_ip_without_cidr(ip_data.address) \in Keys(loc.created_ips)

(* A primary set is attempted: the VM is saved, or the attachment that     *)
(* comes first failed, or the address or the VM's interfaces are missing.  *)
SetAttempted(vm_id, ip_id) ==
    \/ \E i \in 1..Len(log) : log[i].op = "set_primary" /\ log[i].id = vm_id /\ log[i].arg = ip_id
    \/ \E i \in 1..Len(log) : log[i].op = "save_ip" /\ log[i].id = ip_id /\ ~log[i].ok
    \/ ip_id \notin DOMAIN cache.ips \cup DOMAIN nb.ips
    \/ \A i \in DOMAIN cache.ifaces \cup DOMAIN nb.ifaces :
          (IF i \in DOMAIN nb.ifaces THEN nb.ifaces[i].vm ELSE cache.ifaces[i].vm) # vm_id

(* C16: when one target call of the applicator fails, every queued         *)
(* mutation that does not depend on the failed one is still attempted, in  *)
(* the same step and in the later ones, and the applicator returns.        *)
C16_FailureIsolation ==
    (Applied /\ FailedCalls # {}) =>
        LET q == cache.q
        IN /\ \A i \in 1..Len(q.primary_ip_changes) :
                LET e == q.primary_ip_changes[i]
                IN /\ (/\ e.v.kind = "none"
                       /\ e.k \in DOMAIN hist.start_nb.vms
                       /\ hist.start_nb.vms[e.k].primary_ip4 # 0) => Logged("unset_primary", e.k)
                   /\ e.v.kind = "id" => SetAttempted(e.k, e.v.id)
           /\ \A i \in 1..Len(q.disks_to_delete) : Logged("delete_disk", q.disks_to_delete[i])
           /\ CountOp("create_interface") = Len(q.interfaces_to_create)
           /\ \A i \in 1..Len(q.ips_to_update) :
                \E j \in 1..Len(log) : /\ log[j].op = "save_ip"
                                       /\ log[j].id = q.ips_to_update[i].k
                                       /\ log[j].arg = q.ips_to_update[i].v
           /\ \A i \in 1..Len(q.ips_to_create) :
                LET ref == q.ips_to_create[i].assigned_object_id
                IN (~ref.pending \/ LookupKey(ref) \in Keys(loc.created_interfaces))
                       => CreateAttempted(q.ips_to_create[i])
           /\ CountOp("create_disk") = Len(q.disks_to_create)
           /\ \A i \in 1..Len(q.vms_to_update) : Logged("save_vm", q.vms_to_update[i].k)

(* A call fails in an early step and calls of two later kinds follow it *)
C16_Witness ==
    /\ Applied
    /\ \E i \in FailedCalls :
          /\ log[i].op \in {"unset_primary", "delete_disk", "create_interface", "save_ip"}
          /\ \E j, k \in (i + 1)..Len(log) : log[j].op # log[k].op /\ log[j].op # log[i].op
                                             /\ log[k].op # log[i].op


----------------------------------------------------------------------------
(* C17: the counters of the applicator *)

SuccessCounter ==
    [p \in {"s1", "s2", "s3", "s4", "s5", "s6", "s7"} |->
        CASE p = "s1" -> "primary_ips_changed"
          [] p = "s2" -> "disks_deleted"
          [] p = "s3" -> "interfaces_created"
          [] p = "s4" -> "ips_reassigned"
          [] p = "s5" -> "ips_created"
          [] p = "s6" -> "disks_created"
          [] OTHER -> "vms_updated"]

(* C17: each queued create, update or delete the applicator attempts at    *)
(* the target increments exactly one counter, its success counter when the *)
(* call succeeds and errors when it fails; a creation for which the client *)
(* returns no record increments errors.                                    *)
C17_EveryFailureCounted ==
    [][(pc \in DOMAIN SuccessCounter /\ Len(log') > Len(log)) =>
           bstats' = Inc(bstats, IF log'[Len(log')].ok THEN SuccessCounter[pc] ELSE "errors")]_vars


----------------------------------------------------------------------------
(* C18: a pending token whose interface was not created *)

(* The token names an interface that step 3 did not create *)
Unresolved(ref) == ref.pending /\ LookupKey(ref) \notin Keys(loc.created_interfaces)

UnresolvedReassignments ==
    {i \in 1..Len(cache.q.pending_ip_reassignments) :
        Unresolved(cache.q.pending_ip_reassignments[i].v)}

(* C18: an address creation and a pending reassignment whose token names   *)
(* an interface not created in this run are dropped and counted as errors: *)
(* no target call is made for them, nothing is created or saved, and each  *)
(* adds one to errors.                                                     *)
C18_PendingReferenceFailure ==
    [][/\ (/\ pc = "s5"
           /\ idx <= Len(cache.q.ips_to_create)
           /\ Unresolved(cache.q.ips_to_create[idx].assigned_object_id))
          => /\ log' = log
             /\ nb' = nb
             /\ loc' = loc
             /\ bstats' = Inc(bstats, "errors")
       /\ pc = "s3b"
          => /\ log' = log
             /\ nb' = nb
             /\ bstats' = [bstats EXCEPT !.errors = @ + Cardinality(UnresolvedReassignments)]
             /\ \A i \in UnresolvedReassignments :
                  LET ip_id == cache.q.pending_ip_reassignments[i].k
                  IN ip_id \in Keys(cache'.q.ips_to_update)
                        => /\ ip_id \in Keys(cache.q.ips_to_update)
                           /\ Get(cache'.q.ips_to_update, ip_id)
                                 = Get(cache.q.ips_to_update, ip_id)]_vars

(* An address creation was dropped in step 5 *)
C18_Witness ==
    /\ Applied
    /\ \E i \in 1..Len(cache.q.ips_to_create) :
          Unresolved(cache.q.ips_to_create[i].assigned_object_id)
    /\ bstats.errors > 0

(* A pending reassignment was dropped in step 3b *)
C18_WitnessReassign == Applied /\ UnresolvedReassignments # {}


----------------------------------------------------------------------------
(* C19: a primary change that is still pending after address creation *)

(* The VMs whose primary change is marked pending *)
PendingVms(q) ==
    {q.primary_ip_changes[i].k :
        i \in {j \in 1..Len(q.primary_ip_changes) : q.primary_ip_changes[j].v.kind = "pending"}}

(* The pending candidates that step 5 did not create *)
UnresolvedPrimaries ==
    {i \in 1..Len(cache.q.pending_primary_ips) :
        LET e == cache.q.pending_primary_ips[i]
        IN /\ e.k \in PendingVms(cache.q)
           /\ get_ip_without_cidr(e.v) \notin Keys(loc.created_ips)}

StartPrimary(vm_id) ==
    IF vm_id \in DOMAIN hist.start_nb.vms THEN hist.start_nb.vms[vm_id].primary_ip4 ELSE 0

(* C19: a VM whose primary change is still pending after address creation *)
(* gets no primary address in this run: step 5b and step 8 each count it   *)
(* in errors, step 8 makes no target call for it and leaves                *)
(* primary_ips_changed alone, and when the applicator returns the VM's     *)
(* primary address in the target is the one it had when the run started.   *)
C19_UnresolvedPendingTerminal ==
    [][/\ pc = "s5b"
          => bstats' = [bstats EXCEPT !.errors = @ + Cardinality(UnresolvedPrimaries)]
       /\ (/\ pc = "s8"
           /\ idx <= Len(cache.q.primary_ip_changes)
           /\ cache.q.primary_ip_changes[idx].v.kind = "pending")
          => /\ log' = log
             /\ nb' = nb
             /\ bstats' = Inc(bstats, "errors")
       /\ (pc = "s8" /\ pc' = "done")
          => \A vm_id \in PendingVms(cache.q) :
                /\ \A i \in 1..Len(log) : log[i].op = "set_primary" => log[i].id # vm_id
                /\ vm_id \in DOMAIN nb.vms => nb.vms[vm_id].primary_ip4 = StartPrimary(vm_id)]_vars

C19_Witness == Applied /\ PendingVms(cache.q) # {} /\ bstats.errors >= 2


----------------------------------------------------------------------------
(* C20: the scalar update of a VM whose primary change stays pending *)

(* The VMs with an unresolved pending primary and a queued scalar update *)
PendingWithUpdate == PendingVms(cache.q) \cap Keys(cache.q.vms_to_update)

(* C20 as stated: the applicator does not apply the queued scalar-field    *)
(* updates of a VM whose pending primary candidate was not resolved.       *)
C20_Original ==
    Applied => \A vm_id \in PendingWithUpdate : ~Logged("save_vm", vm_id)

(* C20 amended: an unresolved pending primary stops only the primary-      *)
(* address set of the VM; its queued scalar-field updates are still        *)
(* applied in step 7 of the same run.                                      *)
C20_ScalarUpdateStillApplied ==
    Applied =>
        \A vm_id \in PendingWithUpdate :
            /\ Logged("save_vm", vm_id)
            /\ ~Logged("set_primary", vm_id)
            /\ \A i \in 1..Len(log) :
                  (log[i].op = "save_vm" /\ log[i].id = vm_id /\ log[i].ok)
                      => /\ vm_id \in DOMAIN nb.vms
                         /\ nb.vms[vm_id] = ApplyUpdates(nb.vms[vm_id],
                                                         Get(cache.q.vms_to_update, vm_id))

C20_Witness ==
    /\ Applied
    /\ \E vm_id \in PendingWithUpdate :
          \E i \in 1..Len(log) : log[i].op = "save_vm" /\ log[i].id = vm_id /\ log[i].ok


----------------------------------------------------------------------------
(* C21..C25: what process_vm_updates queues for one source VM.  The        *)
(* properties compare the snapshot before the planning step of an existing *)
(* VM with the queues after it.                                            *)

(* The planner is about to plan source VM idx, which the snapshot holds *)
PlansExisting ==
    /\ pc = "plan"
    /\ idx <= Len(yc.vms)
    /\ yc.vms[idx].name # ""
    /\ yc.vms[idx].name \in DOMAIN cache.vms_by_name

PlannedVm == cache.vms_by_name[yc.vms[idx].name]

(* The addresses source VM idx reports, by kind and by presence in the     *)
(* snapshot; a one-to-one NAT address counts as public.                    *)
SrcPrivate == PrivateAddrs(idx)
SrcPublic == PublicAddrs(idx)

InTarget(a) == ips_by_address(cache, get_ip_without_cidr(a)) # 0

RecordsOf(S) ==
    {ips_by_address(cache, get_ip_without_cidr(a)) : a \in {b \in S : InTarget(b)}}

QueuedPrimary(vm_id) ==
    IF vm_id \in Keys(cache'.q.primary_ip_changes)
    THEN Get(cache'.q.primary_ip_changes, vm_id) ELSE NoneVal

QueuedPending(vm_id, S) ==
    /\ QueuedPrimary(vm_id) = PendingVal
    /\ vm_id \in Keys(cache'.q.pending_primary_ips)
    /\ \E a \in S : ensure_cidr_notation(a) = Get(cache'.q.pending_primary_ips, vm_id)

(* C21: for a VM with no primary the queued primary comes from the first   *)
(* non-empty class among: private address in the target, public address in *)
(* the target, private address to be created, public address to be         *)
(* created; the order of the source interfaces does not matter.            *)
C21_PreferenceOrder ==
    [][(PlansExisting /\ cache.vms[PlannedVm].primary_ip4 = 0) =>
          LET v == PlannedVm
          IN IF RecordsOf(SrcPrivate) # {}
             THEN QueuedPrimary(v).kind = "id" /\ QueuedPrimary(v).id \in RecordsOf(SrcPrivate)
             ELSE IF RecordsOf(SrcPublic) # {}
             THEN QueuedPrimary(v).kind = "id" /\ QueuedPrimary(v).id \in RecordsOf(SrcPublic)
             ELSE IF SrcPrivate # {} THEN QueuedPending(v, SrcPrivate)
             ELSE IF SrcPublic # {} THEN QueuedPending(v, SrcPublic)
             ELSE TRUE]_vars


(* The current primary of the VM being planned is in the snapshot and is   *)
(* public, or is private and on none of the VM's interfaces.               *)
PrimaryToReplace ==
    LET vm == cache.vms[PlannedVm]
    IN /\ vm.primary_ip4 # 0
       /\ vm.primary_ip4 \in DOMAIN cache.ips
       /\ LET cur == cache.ips[vm.primary_ip4]
              on_vm == /\ cur.assigned_object_id \in DOMAIN cache.ifaces
                       /\ cache.ifaces[cur.assigned_object_id].vm = PlannedVm
          IN ~is_private_ip(get_ip_without_cidr(cur.address)) \/ ~on_vm

(* C22: for a VM whose current primary is public or no longer on the VM,   *)
(* the planner queues a resolved private candidate if there is one, else   *)
(* "pending" if a private address is to be created, else a resolved public *)
(* candidate other than the current primary; also when the only candidate  *)
(* is a private address still to be created.                               *)
C22_PromotionFromPublic ==
    [][(PlansExisting /\ PrimaryToReplace) =>
          LET v == PlannedVm
              cur == cache.vms[v].primary_ip4
          IN IF RecordsOf(SrcPrivate) # {}
             THEN QueuedPrimary(v).kind = "id" /\ QueuedPrimary(v).id \in RecordsOf(SrcPrivate)
             ELSE IF SrcPrivate # {} THEN QueuedPending(v, SrcPrivate)
             ELSE IF RecordsOf(SrcPublic) \ {cur} # {}
             THEN QueuedPrimary(v).kind = "id"
                  /\ QueuedPrimary(v).id \in RecordsOf(SrcPublic) \ {cur}
             ELSE TRUE]_vars


(* C23: the scan of the addresses on the VM's existing interfaces decides  *)
(* the primary only when the source yields no candidate at all; a VM       *)
(* without primary whose source addresses are all still to be created gets *)
(* the "pending" marker.                                                   *)
C23_FallbackOnlyWithoutCandidates ==
    [][(/\ PlansExisting
        /\ cache.vms[PlannedVm].primary_ip4 = 0
        /\ SrcPrivate \cup SrcPublic # {}
        /\ RecordsOf(SrcPrivate \cup SrcPublic) = {})
          => QueuedPrimary(PlannedVm) = PendingVal]_vars


(* The interface the planner pairs with the j-th source interface of the   *)
(* VM being planned: the existing eth{j-1} of the VM, or the pending token *)
IfaceRef(j) ==
    LET same == {i \in DOMAIN cache.ifaces :
                    cache.ifaces[i].vm = PlannedVm /\ cache.ifaces[i].name = EthName(j - 1)}
    IN IF same # {} THEN RealRef(Max(same)) ELSE PendingRef(PlannedVm, EthName(j - 1))

(* Address a is recorded in the snapshot on another interface than ref *)
Misassigned(a, ref) ==
    /\ InTarget(a)
    /\ ref.pending
         \/ cache.ips[ips_by_address(cache, get_ip_without_cidr(a))].assigned_object_id # ref.id

(* The queues after the step hold a reassignment of address a to ref *)
ReassignmentQueued(a, ref) ==
    LET ip_id == ips_by_address(cache, get_ip_without_cidr(a))
    IN IF ref.pending
       THEN /\ ip_id \in Keys(cache'.q.pending_ip_reassignments)
            /\ Get(cache'.q.pending_ip_reassignments, ip_id) = ref
       ELSE /\ ip_id \in Keys(cache'.q.ips_to_update)
            /\ Get(cache'.q.ips_to_update, ip_id) = ref.id

(* C24: a NAT address that the target holds on another interface than the  *)
(* one the source reports it on is queued for reassignment to the reported *)
(* interface: in ips_to_update when the interface exists, in               *)
(* pending_ip_reassignments when it is to be created.                      *)
C24_NatReassignment ==
    [][PlansExisting =>
          \A j \in 1..Len(yc.vms[idx].ifaces) :
              LET nat == yc.vms[idx].ifaces[j].nat
              IN (nat # NoAddr /\ Misassigned(nat, IfaceRef(j)))
                    => ReassignmentQueued(nat, IfaceRef(j))]_vars


(* The VMs other than the planned one whose primary is the record of a *)
OtherHolders(a) ==
    vms_with_primary_ip(cache, ips_by_address(cache, get_ip_without_cidr(a))) \ {PlannedVm}

(* The entry of key k in the dictionary d, or the empty sequence *)
EntryOf(d, k) == IF k \in Keys(d) THEN <<Get(d, k)>> ELSE <<>>

(* The step queues one reassignment of address a, to ref, in the           *)
(* collection that ref calls for and leaves the entry of a in the other    *)
(* collection as it was; every other VM holding a as primary has the clear *)
ReassignedOnce(a, ref) ==
    LET ip_id == ips_by_address(cache, get_ip_without_cidr(a))
    IN /\ ReassignmentQueued(a, ref)
       /\ IF ref.pending
          THEN EntryOf(cache'.q.ips_to_update, ip_id) = EntryOf(cache.q.ips_to_update, ip_id)
          ELSE EntryOf(cache'.q.pending_ip_reassignments, ip_id)
                  = EntryOf(cache.q.pending_ip_reassignments, ip_id)
       /\ \A o \in OtherHolders(a) : /\ o \in Keys(cache'.q.primary_ip_changes)
                                     /\ QueuedPrimary(o) = NoneVal

(* C25: a primary-v4 address the target holds on another interface gets    *)
(* exactly one queued reassignment, in ips_to_update when the reported     *)
(* interface exists and in pending_ip_reassignments, not in ips_to_update, *)
(* when it is to be created; every other VM holding the address as primary *)
(* gets a primary clear.                                                   *)
C25_PrimaryV4Reassignment ==
    [][PlansExisting =>
          \A j \in 1..Len(yc.vms[idx].ifaces) :
              LET p4 == yc.vms[idx].ifaces[j].p4
              IN (p4 # NoAddr /\ Misassigned(p4, IfaceRef(j)))
                    => ReassignedOnce(p4, IfaceRef(j))]_vars

(* Planning has queued a pending reassignment for a VM that the target    *)
(* held when the run started, with a clear for another VM that held the    *)
(* address as primary.                                                     *)
C25_Witness ==
    /\ pc = "apply"
    /\ \E i \in 1..Len(cache.q.pending_ip_reassignments) :
          LET e == cache.q.pending_ip_reassignments[i]
          IN /\ e.v.vm \in DOMAIN hist.start_nb.vms
             /\ \E o \in DOMAIN cache.vms \ {e.v.vm} :
                   /\ cache.vms[o].primary_ip4 = e.k
                   /\ o \in Keys(cache.q.primary_ip_changes)
                   /\ Get(cache.q.primary_ip_changes, o) = NoneVal

(* Planning has queued a direct reassignment with a clear for the holder *)
C25_WitnessDirect ==
    /\ pc = "apply"
    /\ \E i \in 1..Len(cache.q.primary_ip_changes) :
          /\ cache.q.primary_ip_changes[i].v = NoneVal
          /\ cache.vms[cache.q.primary_ip_changes[i].k].primary_ip4
                \in Keys(cache.q.ips_to_update)


----------------------------------------------------------------------------
(* C26: the disk diff of a VM *)

(* The converted sizes of the disks source VM i reports, by name *)
SourceDisks(i) == YcDiskMap(yc.vms[i].disks, Len(yc.vms[i].disks))

(* The disks of VM v in target n, as the set of their (name, size) pairs *)
TargetDisks(n, v) == {<<n.disks[d].name, n.disks[d].size>> : d \in {x \in DOMAIN n.disks : n.disks[x].vm = v}}

(* C26: after an error-free run the disks of every planned VM that the     *)
(* target held at the start are those of the source: a disk only in the    *)
(* source was created, a disk only in the target deleted, and a disk in    *)
(* both whose size differed was saved with the converted source size.      *)
C26_DiskDiff ==
    (pc = "done" /\ run > 0 /\ ~cfg.dry_run /\ RunClean) =>
        \A i \in Planned :
            LET name == yc.vms[i].name
            IN (name \in DOMAIN cache.vms_by_name
                  /\ cache.vms_by_name[name] \in DOMAIN hist.start_nb.vms
                  /\ cache.vms_by_name[name] \in DOMAIN nb.vms)
               => TargetDisks(nb, cache.vms_by_name[name])
                     = {<<SourceDisks(i)[k].k, SourceDisks(i)[k].v>> : k \in 1..Len(SourceDisks(i))}


----------------------------------------------------------------------------
(* C27: the site of a zone the source still reports *)

(* The record is what ensure_site writes for zone zone_id *)
SiteOfZone(site, zone_id) ==
    /\ site.slug = site_slug(zone_id)
    /\ site.description = site_description(zone_id)

(* C27: no step deletes a site that the sync created for a zone whose id   *)
(* the source extraction of the run contains, whatever letters the id has. *)
C27_SitesSurvive ==
    [][\A s \in DOMAIN nb.sites \ DOMAIN nb'.sites :
          \A i \in 1..Len(yc.zones) : ~SiteOfZone(nb.sites[s], yc.zones[i].id)]_vars


----------------------------------------------------------------------------
(* C28: the folder id of a cluster, written and read back                   *)
(*                                                                          *)
(* ensure_cluster writes the comments of a cluster from the folder's id and *)
(* description (netbox.py 465, 492); cleanup_orphaned_infrastructure reads  *)
(* the folder id back (cleanup.py 76-80).  Folder ids are identifiers       *)
(* issued by the source: non-empty, without whitespace.  Descriptions are   *)
(* free text: they may hold blanks, line breaks, the marker itself and      *)
(* another folder's id.                                                     *)

MaxDescLen == 3

FolderIds == { F1, FGone, <<"b1g", "-", "folder">>, <<"b1g", "-", "gone">> }

DescTokens == { "prod", " ", "\n", FolderMarker, "b1g-gone" }

Descriptions == UNION { [1..k -> DescTokens] : k \in 0..MaxDescLen }

ClusterInit ==
    /\ \E f \in FolderIds, d \in Descriptions :
          loc = [folder_id |-> f, description |-> d, extracted |-> <<>>]
    /\ yc = [comments |-> <<>>]
    /\ pc = "c_in"
    /\ idx = 1
    /\ log = <<>>
    /\ nb = Target(0, NoInfra, NoVms)
    /\ cfg = Mode(FALSE, TRUE, 0)
    /\ cache = EmptyCache
    /\ stats = ZeroStats
    /\ bstats = ZeroBatchStats
    /\ hist = [prev_clean |-> FALSE, start_nb |-> nb, start_fails |-> 0]
    /\ run = 0
    /\ fails = 0

(* ensure_cluster: the comments it stores for the folder *)
WriteComments ==
    /\ pc = "c_in"
    /\ yc' = [comments |-> cluster_comments(loc.folder_id, loc.description)]
    /\ pc' = "c_written"
    /\ UNCHANGED <<nb, cfg, cache, loc, idx, stats, bstats, log, hist, run, fails>>

(* cleanup_orphaned_infrastructure: the folder id it takes from the comments *)
ExtractFolderId ==
    /\ pc = "c_written"
    /\ loc' = [loc EXCEPT !.extracted = cluster_folder_id(yc)]
    /\ pc' = "c_out"
    /\ UNCHANGED <<nb, yc, cfg, cache, idx, stats, bstats, log, hist, run, fails>>

ClusterNext == WriteComments \/ ExtractFolderId

ClusterSpec == ClusterInit /\ [][ClusterNext]_vars

(* C28: for every folder id and every description, the folder id that the   *)
(* reclaimer extracts from the comments ensure_cluster writes is the        *)
(* original folder id.                                                      *)
C28_FolderIdRoundTrip ==
    pc = "c_out" => loc.extracted = loc.folder_id

(* a description that itself holds the marker, a line break and another     *)
(* folder's id has been written and read back                               *)
C28_Witness ==
    /\ pc = "c_out"
    /\ loc.folder_id = F1
    /\ loc.description = <<FolderMarker, "b1g-gone", "\n">>
    /\ loc.extracted # <<>>


----------------------------------------------------------------------------
(* C29: the sync tag on the VMs a run writes *)

(* The VMs the current run created, and those whose record it saved *)
CreatedVms == {log[i].id : i \in {j \in 1..Len(log) : log[j].op = "create_vm" /\ log[j].ok}}

UpdatedVms == {log[i].id : i \in {j \in 1..Len(log) : log[j].op = "save_vm" /\ log[j].ok}}

(* C29: after a non-dry-run run, every VM the run created and every VM     *)
(* whose record the run updated carries the sync tag.                      *)
C29_SyncTagCoverage ==
    (pc = "done" /\ run > 0 /\ ~cfg.dry_run) =>
        \A vm_id \in (CreatedVms \cup UpdatedVms) \cap DOMAIN nb.vms : Tagged(nb.vms[vm_id])


----------------------------------------------------------------------------
(* C30: the result of process_vm_updates and the queues *)

(* The mutation collections of the cache; pending_primary_ips is a note    *)
(* for step 5b and always comes with an entry of ips_to_create.            *)
MutationCollections(c) ==
    [vms_to_update |-> c.q.vms_to_update,
     ips_to_update |-> c.q.ips_to_update,
     pending_ip_reassignments |-> c.q.pending_ip_reassignments,
     primary_ip_changes |-> c.q.primary_ip_changes,
     interfaces_to_create |-> c.q.interfaces_to_create,
     ips_to_create |-> c.q.ips_to_create,
     disks_to_create |-> c.q.disks_to_create,
     disks_to_delete |-> c.q.disks_to_delete]

QueuedSomething == MutationCollections(cache') # MutationCollections(cache)

(* C30: planning an existing VM counts it as updated (process_vm_updates   *)
(* returned true) if and only if the planning added an entry to a mutation *)
(* collection, and as skipped if and only if it queued nothing.            *)
C30_ChangedIffQueued ==
    [][PlansExisting =>
          /\ process_vm_updates(cache, PlannedVm, yc.vms[idx]).changed <=> QueuedSomething
          /\ (stats'.updated = stats.updated + 1) <=> QueuedSomething
          /\ (stats'.skipped = stats.skipped + 1) <=> ~QueuedSomething
          /\ stats'.updated + stats'.skipped = stats.updated + stats.skipped + 1]_vars

(* An existing VM was planned with nothing queued and counted as skipped,  *)
(* and a run counted an existing VM as updated with a queue entry for it.  *)
C30_Witness ==
    /\ pc = "apply"
    /\ stats.skipped = 1 /\ stats.updated = 0 /\ stats.created = 0
    /\ Len(yc.vms) = 1 /\ yc.vms[1].name \in DOMAIN cache.vms_by_name
    /\ cache.q = EmptyQueues

C30_WitnessUpdated ==
    /\ pc = "apply"
    /\ stats.updated = 1 /\ stats.skipped = 0 /\ stats.created = 0
    /\ Len(yc.vms) = 1 /\ yc.vms[1].name \in DOMAIN cache.vms_by_name
    /\ cache.q.vms_to_update = <<>> /\ cache.q.disks_to_delete # <<>>


----------------------------------------------------------------------------
(* C31: a listing that fails while the snapshot is loaded *)

(* load_netbox_data is called and one of its listings raises *)
ListingFails == pc = "vm_start" /\ yc.vms # <<>> /\ fails' > fails

(* C31: if the disk listing fails, the loader returns a snapshot with an   *)
(* empty disk index and the run continues; if the VM, interface or address *)
(* listing fails, the failure leaves sync_vms_optimized and the run has    *)
(* issued no VM, interface, address or disk mutation, orphan deletion      *)
(* included.                                                               *)
C31_SnapshotLoadFailure ==
    [][ListingFails =>
          \/ /\ pc' \in {"orphans", "plan"}
             /\ cache'.disks = EmptyFn
             /\ cache'.vms = nb.vms /\ cache'.ifaces = nb.ifaces /\ cache'.ips = nb.ips
          \/ /\ pc' = "done"
             /\ loc'.aborted
             /\ VmPart(nb') = VmPart(nb)
             /\ stats' = ZeroStats /\ bstats' = ZeroBatchStats
             /\ \A i \in 1..Len(log') : log'[i].op \notin VmOps]_vars

(* The run ended at the snapshot load, with VMs in the source and target   *)
C31_Witness ==
    /\ pc = "done" /\ loc.aborted /\ loc.cluster_type_id # 0
    /\ yc.vms # <<>> /\ nb.vms # EmptyFn
    /\ VmPart(nb) = VmPart(hist.start_nb)

(* The planner works on a snapshot without the disks the target holds *)
C31_WitnessDisks ==
    /\ pc = "plan" /\ cache.disks = EmptyFn /\ nb.disks # EmptyFn /\ cache.vms # EmptyFn


----------------------------------------------------------------------------
(* C32: a source extraction without VMs *)

(* sync_vms_optimized has returned in a run on a source without VMs *)
EmptySourceReturned == pc = "done" /\ run > 0 /\ ~loc.aborted /\ yc.vms = <<>>

(* C32: when the source extraction contains no VMs, sync_vms_optimized     *)
(* returns all-zero statistics and issues no read or mutation against the  *)
(* target: the snapshot is never loaded, and no sync-tagged VM is deleted  *)
(* even with cleanup enabled.                                              *)
C32_EmptySourceNoOp ==
    EmptySourceReturned =>
        /\ stats = ZeroStats
        /\ bstats = ZeroBatchStats
        /\ cache = EmptyCache
        /\ \A i \in 1..Len(log) : log[i].op \notin VmOps
        /\ VmPart(nb) = VmPart(hist.start_nb)

(* A run with cleanup enabled has returned on an empty source while the    *)
(* target holds a sync-tagged VM                                           *)
C32_Witness ==
    /\ EmptySourceReturned
    /\ loc.do_cleanup /\ ~cfg.dry_run
    /\ \E v \in DOMAIN nb.vms : Tagged(nb.vms[v])


----------------------------------------------------------------------------
(* C33: the comparison of comments                                          *)
(*                                                                          *)
(* _normalize_comments (batch.py 15-19) and the comparison that             *)
(* process_vm_updates makes with it (batch.py 177-179), on comments drawn   *)
(* from a small alphabet: a letter, the blank and the line break.           *)

MaxCommentLen == 4
MaxPad == 1

CommentTokens == { "x", " ", "\n" }

Comments == UNION { [1..k -> CommentTokens] : k \in 0..MaxCommentLen }

Spaces(n) == [i \in 1..n |-> " "]

RECURSIVE JoinLines(_)
JoinLines(lines) ==
    IF lines = <<>> THEN <<>>
    ELSE IF Len(lines) = 1 THEN lines[1]
    ELSE lines[1] \o <<"\n">> \o JoinLines(Tail(lines))

(* str.splitlines(): no line for the empty string *)
SplitLines(str) == IF str = <<>> THEN <<>> ELSE Split(str, "\n")

(* The comparison that trims the text as a whole only *)
normalize_comments_whole(text) ==
    IF text = <<>> THEN <<>> ELSE JoinLines(SplitLines(Strip(text)))

(* "\n".join(line.strip() for line in text.strip().splitlines()) *)
normalize_comments(text) ==
    IF text = <<>> THEN <<>>
    ELSE LET lines == SplitLines(Strip(text))
         IN JoinLines([i \in 1..Len(lines) |-> Strip(lines[i])])

(* process_vm_updates lines 177-179: comments enters the updates *)
comments_update(vm_comments, new_comments) ==
    normalize_comments(vm_comments) # normalize_comments(new_comments)

(* s with pad.before[i] blanks before and pad.after[i] blanks after its    *)
(* i-th line (by parity of i), and a line break appended                   *)
Paddings == [before : [0..1 -> 0..MaxPad], after : [0..1 -> 0..MaxPad]]

Padded(s, pad) ==
    LET lines == Split(s, "\n")
    IN JoinLines([i \in 1..Len(lines) |->
                    Spaces(pad.before[i % 2]) \o lines[i] \o Spaces(pad.after[i % 2])])
       \o <<"\n">>

CommentInit ==
    /\ \E s \in Comments, pad \in Paddings, edited \in BOOLEAN :
          loc = [generated |-> s, pad |-> pad, edited |-> edited, stored |-> <<>>,
                 queued |-> FALSE]
    /\ yc = [comments |-> <<>>]
    /\ pc = "n_in"
    /\ idx = 1
    /\ log = <<>>
    /\ nb = Target(0, NoInfra, NoVms)
    /\ cfg = Mode(FALSE, TRUE, 0)
    /\ cache = EmptyCache
    /\ stats = ZeroStats
    /\ bstats = ZeroBatchStats
    /\ hist = [prev_clean |-> FALSE, start_nb |-> nb, start_fails |-> 0]
    /\ run = 0
    /\ fails = 0

(* The target stores the generated comments with other whitespace, or      *)
(* with a line that somebody added                                         *)
StoreComments ==
    /\ pc = "n_in"
    /\ loc' = [loc EXCEPT !.stored = Padded(loc.generated, loc.pad)
                                       \o (IF loc.edited THEN <<"x">> ELSE <<>>)]
    /\ pc' = "n_stored"
    /\ UNCHANGED <<nb, yc, cfg, cache, idx, stats, bstats, log, hist, run, fails>>

(* process_vm_updates compares the stored comments with the generated ones *)
CompareComments ==
    /\ pc = "n_stored"
    /\ loc' = [loc EXCEPT !.queued = comments_update(loc.stored, loc.generated)]
    /\ pc' = "n_out"
    /\ UNCHANGED <<nb, yc, cfg, cache, idx, stats, bstats, log, hist, run, fails>>

CommentNext == StoreComments \/ CompareComments

CommentSpec == CommentInit /\ [][CommentNext]_vars

(* C33: for every comment string s, _normalize_comments gives the same     *)
(* for s and for s with blanks added before and after each line and a line *)
(* break appended; a VM whose stored comments differ from the generated    *)
(* comments only in such whitespace gets no comments update queued.        *)
C33_CommentNormalization ==
    (pc \in {"n_stored", "n_out"} /\ ~loc.edited) =>
        /\ normalize_comments(loc.stored) = normalize_comments(loc.generated)
        /\ pc = "n_out" => ~loc.queued

(* Comments of two lines were stored with blanks around both lines and     *)
(* compared                                                                *)
C33_Witness ==
    /\ pc = "n_out" /\ ~loc.edited /\ ~loc.queued
    /\ loc.generated = <<"x", "\n", "x">>
    /\ loc.stored = <<" ", "x", " ", "\n", " ", "x", " ", "\n">>

(* An added line is seen by the comparison *)
C33_WitnessEdited ==
    pc = "n_out" /\ loc.edited /\ loc.queued /\ loc.generated = <<"x", "\n", "x">>


----------------------------------------------------------------------------
(* C34: repeated runs on a fixed source                                     *)
(*                                                                          *)
(* The sync is started again and again (cli.py runs SyncEngine.run once     *)
(* per invocation), on a source that does not change and a target that      *)
(* nothing else writes to and that raises nothing.  Each run is a           *)
(* sequential program, so a step that can be taken is taken: weak fairness  *)
(* of the steps of the run.                                                 *)

MaxConvRuns == 4

(* The addresses the source reports, one entry per interface and kind *)
ReportedAddrs ==
    UNION { UNION { { <<i, j, "p4", yc.vms[i].ifaces[j].p4>>,
                      <<i, j, "nat", yc.vms[i].ifaces[j].nat>> } :
                    j \in 1..Len(yc.vms[i].ifaces) } :
            i \in 1..Len(yc.vms) }

SingleHolder ==
    \A x, y \in { r \in ReportedAddrs : r[4] # NoAddr } : x[4] = y[4] => x = y

ConvInit ==
    /\ Init
    /\ ~cfg.dry_run
    /\ cfg.fail_budget = 0
    /\ SingleHolder

(* run(): the next run of the sync is started *)
StartNextRun ==
    /\ pc \in {"idle", "done"}
    /\ run < MaxConvRuns
    /\ run' = run + 1
    /\ \E ok \in Outcomes :
         LET l0 == [InitLoc EXCEPT !.do_cleanup = cfg.cleanup /\ ~yc.has_fetch_errors]
             t == ensure_sync_tag(nb, l0, cfg.dry_run, ok)
         IN /\ (~ok => t.called)
            /\ nb' = t.nb
            /\ loc' = t.loc
            /\ fails' = Failed(ok)
    /\ hist' = [prev_clean |-> pc = "done" /\ RunClean /\ ~cfg.dry_run /\ yc.vms # <<>>,
                start_nb |-> nb, start_fails |-> fails]
    /\ cache' = EmptyCache
    /\ stats' = ZeroStats
    /\ bstats' = ZeroBatchStats
    /\ log' = <<>>
    /\ pc' = "infra"
    /\ idx' = 1
    /\ UNCHANGED <<yc, cfg>>

ConvNext ==
    \/ StartNextRun
    \/ InfraStart
    \/ CleanupListing
    \/ CleanupSite
    \/ CleanupCluster
    \/ CleanupPrefix
    \/ EnsureSite
    \/ EnsureClusterType
    \/ EnsureCluster
    \/ EnsurePrefix
    \/ LoadCache
    \/ OrphanVm
    \/ PlanVm
    \/ ApplyStart
    \/ Step1UnsetPrimary
    \/ Step2DeleteDisk
    \/ Step3CreateInterface
    \/ Step3bResolveReassignments
    \/ Step4UpdateIp
    \/ Step5CreateIp
    \/ Step5bResolvePrimaries
    \/ Step6CreateDisk
    \/ Step7UpdateVm
    \/ Step8SetPrimary
    \/ Advance

(* The planner loop of sync_vms_optimized (batch.py 714-751) goes on to the *)
(* next source VM; every other step of the run is taken when it can be.    *)
Planning == pc = "plan" /\ idx <= Len(yc.vms)

PlanStep == Planning /\ idx' = idx + 1

OtherStep == ~Planning /\ ConvNext

ConvSpec == ConvInit /\ [][ConvNext]_vars /\ WF_vars(OtherStep) /\ WF_idx(PlanStep)

(* The batch VM sync of the current run is over and it created, deleted    *)
(* and queued nothing                                                      *)
ConvergedRun ==
    /\ pc = "done" /\ run > 0 /\ ~loc.aborted
    /\ cache.q = EmptyQueues
    /\ stats.created = 0 /\ stats.deleted = 0 /\ stats.errors = 0

----------------------------------------------------------------------------
(* C35: the interface a pending token stands for *)

(* The interface created in this run under the key of ref, and that it is  *)
(* the interface of ref's VM with ref's name                               *)
CreatedFor(ref) == Get(loc.created_interfaces, LookupKey(ref))

Resolved(ref) == ref.pending /\ LookupKey(ref) \in Keys(loc.created_interfaces)

IsInterfaceOf(iface_id, ref) ==
    /\ iface_id \in DOMAIN nb.ifaces
    /\ nb.ifaces[iface_id].vm = ref.vm
    /\ nb.ifaces[iface_id].name = ref.name

HoldersOf(addr) ==
    {i \in DOMAIN nb.ips : get_ip_without_cidr(nb.ips[i].address) = get_ip_without_cidr(addr)}

(* The applicator returned and no call of the run raised *)
AppliedClean == Applied /\ fails = hist.start_fails

(* C35: an address queued for creation, or an existing address queued for  *)
(* pending reassignment, with the token for (VM v, interface eth{k}) ends  *)
(* up assigned to the interface created in this run for v with name        *)
(* eth{k}, never to an interface of another VM or another interface of v.  *)
C35_PendingTokenExact ==
    AppliedClean =>
        /\ \A i \in 1..Len(cache.q.ips_to_create) :
              LET ip_data == cache.q.ips_to_create[i]
                  ref == ip_data.assigned_object_id
              IN Resolved(ref) =>
                    /\ IsInterfaceOf(CreatedFor(ref), ref)
                    /\ \A h \in HoldersOf(ip_data.address) :
                          nb.ips[h].assigned_object_id = CreatedFor(ref)
        /\ \A i \in 1..Len(cache.q.pending_ip_reassignments) :
              LET e == cache.q.pending_ip_reassignments[i]
              IN (Resolved(e.v) /\ e.k \in DOMAIN nb.ips) =>
                    /\ IsInterfaceOf(CreatedFor(e.v), e.v)
                    /\ nb.ips[e.k].assigned_object_id = CreatedFor(e.v)


----------------------------------------------------------------------------
(* C36: calls on a VM the run has deleted *)

VmWrites == {"unset_primary", "save_vm", "set_primary"}

(* C36: within one run, after a VM has been deleted as an orphan, the run  *)
(* issues no further mutation (primary clear, save, primary set) against   *)
(* that VM, even when an address it held as primary is reported by the     *)
(* source on another VM.                                                   *)
C36_NoMutationAfterDeletion ==
    \A i, j \in 1..Len(log) :
        (i < j /\ log[i].op = "delete_vm" /\ log[i].ok) =>
            ~(log[j].op \in VmWrites /\ log[j].id = log[i].id)


----------------------------------------------------------------------------
(* C37: the per-VM counters of sync_vms_optimized                           *)
(*                                                                          *)
(* The loop over the source VMs (batch.py 714-746) with what it calls taken *)
(* by its outcome: process_vm_updates returns true or false or raises (the  *)
(* platform lookup of vms.py 131-140 can raise), prepare_vm_data raises or  *)
(* returns, create_vm returns a record or None.  The orphan pass before the *)
(* loop may have counted deletions and errors.                              *)

MaxSourceVms == 3

VmKinds == { "unnamed", "existing", "new" }

SourceKinds == UNION { [1..k -> VmKinds] : k \in 1..MaxSourceVms }

CountInit ==
    /\ \E kinds \in SourceKinds : loc = [kinds |-> kinds]
    /\ \E dry_run \in BOOLEAN : cfg = Mode(dry_run, TRUE, 0)
    /\ \E d \in 0..1, e \in 0..1 : stats = [ZeroStats EXCEPT !.deleted = d, !.errors = e]
    /\ pc = "v_loop"
    /\ idx = 1
    /\ log = <<>>
    /\ yc = [vms |-> <<>>]
    /\ nb = Target(0, NoInfra, NoVms)
    /\ hist = [prev_clean |-> FALSE, start_nb |-> nb, start_fails |-> 0]
    /\ cache = EmptyCache
    /\ bstats = ZeroBatchStats
    /\ run = 0
    /\ fails = 0

(* The outcomes of one pass through the loop body, lines 716-746 *)
VmOutcomes(kind, dry_run) ==
    CASE kind = "unnamed" -> { "unnamed" }
      [] kind = "existing" -> { "changed", "unchanged", "plan_raised" }
      [] kind = "new" ->
           IF dry_run THEN { "prepare_raised", "would_create" }
           ELSE { "prepare_raised", "create_none", "created", "created_plan_raised" }

(* A loop that does not count a create_vm that returned None *)
CountOutcomeLenient(st, outcome) ==
    CASE outcome = "unnamed" -> Inc(st, "skipped")
      [] outcome = "changed" -> Inc(st, "updated")
      [] outcome = "unchanged" -> Inc(st, "skipped")
      [] outcome \in {"plan_raised", "prepare_raised"} -> Inc(st, "errors")
      [] outcome = "create_none" -> st
      [] outcome \in {"created", "would_create"} -> Inc(st, "created")
      [] outcome = "created_plan_raised" -> Inc(Inc(st, "created"), "errors")

(* Lines 718-746: the counters after one source VM *)
CountOutcome(st, outcome) ==
    CASE outcome = "unnamed" -> Inc(st, "skipped")
      [] outcome = "changed" -> Inc(st, "updated")
      [] outcome = "unchanged" -> Inc(st, "skipped")
      [] outcome \in {"plan_raised", "prepare_raised", "create_none"} -> Inc(st, "errors")
      [] outcome \in {"created", "would_create"} -> Inc(st, "created")
      [] outcome = "created_plan_raised" -> Inc(Inc(st, "created"), "errors")

CountVm ==
    /\ pc = "v_loop"
    /\ idx <= Len(loc.kinds)
    /\ \E outcome \in VmOutcomes(loc.kinds[idx], cfg.dry_run) :
         /\ stats' = CountOutcome(stats, outcome)
         /\ log' = Append(log, outcome)
    /\ idx' = idx + 1
    /\ UNCHANGED <<nb, yc, cfg, cache, loc, pc, bstats, hist, run, fails>>

(* Line 749 on: the loop is over and the statistics are returned *)
CountReturn ==
    /\ pc = "v_loop"
    /\ idx > Len(loc.kinds)
    /\ pc' = "v_done"
    /\ UNCHANGED <<nb, yc, cfg, cache, loc, idx, stats, bstats, log, hist, run, fails>>

CountNext == CountVm \/ CountReturn

CountSpec == CountInit /\ [][CountNext]_vars

PerVmSum(st) == st.created + st.updated + st.skipped + st.errors

PerVmCounters == {"created", "updated", "skipped", "errors"}

(* C37: every source VM record is counted in at least one of created,      *)
(* updated, skipped and errors, and in exactly one of them unless planning *)
(* raises after the VM was created; so the four counters add up to at      *)
(* least the number of source VM records.                                  *)
C37_PerVmAccounting ==
    /\ [](pc = "v_done" => PerVmSum(stats) >= Len(loc.kinds))
    /\ [][(pc = "v_loop" /\ idx <= Len(loc.kinds)) =>
            LET raised == log'[idx] = "created_plan_raised"
                moved == {f \in PerVmCounters : stats'[f] # stats[f]}
            IN /\ \A f \in moved : stats'[f] = stats[f] + 1
               /\ stats'.deleted = stats.deleted
               /\ IF raised THEN moved = {"created", "errors"}
                  ELSE Cardinality(moved) = 1]_vars

(* Three source VMs were counted, one of them created before its planning  *)
(* raised                                                                  *)
C37_Witness ==
    /\ pc = "v_done"
    /\ log = <<"unchanged", "created_plan_raised", "create_none">>
    /\ stats.skipped = 1 /\ stats.created = 1 /\ stats.errors >= 2


----------------------------------------------------------------------------
(* C38: what the planner leaves alone *)

(* The snapshot records of a cache, without the mutation collections *)
Snapshot(c) == [vms |-> c.vms, vms_by_name |-> c.vms_by_name, ifaces |-> c.ifaces,
                ips |-> c.ips, disks |-> c.disks]

IsPrefix(s, t) == Len(s) <= Len(t) /\ SubSeq(t, 1, Len(s)) = s

(* Every entry queued before is still queued: the lists have grown at the  *)
(* end, the maps have kept their keys                                      *)
QueuesGrew(q, r) ==
    /\ IsPrefix(q.interfaces_to_create, r.interfaces_to_create)
    /\ IsPrefix(q.ips_to_create, r.ips_to_create)
    /\ IsPrefix(q.disks_to_create, r.disks_to_create)
    /\ IsPrefix(q.disks_to_delete, r.disks_to_delete)
    /\ Keys(q.vms_to_update) \subseteq Keys(r.vms_to_update)
    /\ Keys(q.ips_to_update) \subseteq Keys(r.ips_to_update)
    /\ Keys(q.primary_ip_changes) \subseteq Keys(r.primary_ip_changes)
    /\ Keys(q.pending_primary_ips) \subseteq Keys(r.pending_primary_ips)
    /\ Keys(q.pending_ip_reassignments) \subseteq Keys(r.pending_ip_reassignments)

(* The planner is about to plan source VM idx, which the snapshot lacks,   *)
(* in a run that writes                                                    *)
PlansNew ==
    /\ Planning
    /\ yc.vms[idx].name # ""
    /\ yc.vms[idx].name \notin DOMAIN cache.vms_by_name
    /\ ~cfg.dry_run

====
